---------------------------- MODULE Spec2Model ----------------------------
(***************************************************************************)
(* Rasch_Bot: the Rasch-result pipeline of the admin bot.                  *)
(*                                                                         *)
(*   db_rasch.py       TestManager.export_test_results  (response frame)   *)
(*   handlers.py       process_rasch_model              (binary matrix,    *)
(*                                                       scores, grades,   *)
(*                                                       ranking)          *)
(*   FastRaschModel.py FastRaschModel.fit               (estimator driver) *)
(*                                                                         *)
(* The specifications share the variables below, one per stage of the     *)
(* pipeline: SpecMatrix (building the response matrix and handing it to    *)
(* fit), SpecFit, SpecFitAny and SpecFitPair (the estimator driver),       *)
(* SpecCell (the probability of one cell of the likelihood),               *)
(* SpecTransform (abilities to Ball and Prop_Score), SpecScore (grading    *)
(* and ranking) and SpecHandler (overlapping invocations of the handler    *)
(* and their result files).  Floating-point cells are modelled as          *)
(* one-element tuples <<v>>; the empty tuple is pandas' NaN.               *)
(***************************************************************************)
EXTENDS Integers, Sequences, FiniteSets, TLC

VARIABLES
    pc,               \* position in the pipeline
    correct_answers,  \* test['answers_1_35']: the answer key
    records,          \* the fetched submissions, one token sequence per person
    df,               \* the frame the export returns
    response_data,    \* the frame handed to fit
    X_np,             \* fit: the matrix as fit sees it
    n_persons,        \* fit: X_np.shape[0]
    n_items,          \* fit: X_np.shape[1]
    max_iter,         \* fit: argument max_iter
    batch_size,       \* fit: argument batch_size
    path,             \* fit: the branch of line 51 that was taken
    initial_guess,    \* fit: the starting point of the next minimize call
    iteration,        \* fit: rounds of the mini-batch loop started so far
    batch_idx,        \* fit: the sampled person indices of this round
    X_batch,          \* fit: the sampled rows of this round
    runs,             \* fit: calls of minimize so far
    result,           \* fit: the last OptimizeResult
    item_difficulty,  \* model.item_difficulty
    person_ability,   \* model.person_ability
    Ball,             \* df['Ball'], per person in the frame's original order
    Daraja,           \* df['Daraja'], per person in the frame's original order
    sorted_index,     \* the frame's index after sort_values: persons in report order
    No,               \* df['№'] after line 958, per person
    Theta,            \* df['Theta'], per person
    Prop_Score,       \* df['Prop_Score'], per person, in hundredths
    max_possible,     \* len(response_cols)
    pair,             \* likelihood: the pair (theta[i], beta[j]) of one cell
    p_ij,             \* likelihood: p of that cell, in units of 1e-9
    hpc,              \* handler: position of each invocation
    test_id,          \* handler: test_id of each invocation
    result_path,      \* handler: result_path of each invocation
    stages,           \* handler: pipeline stages each invocation has completed
    disk,             \* the working directory: content of each result file
    document,         \* the document each invocation has sent to its chat
    failed,           \* whether each invocation has answered with an error
    state,            \* FSM: the conversation state of each user (state.get_state())
    fsm_data,         \* FSM: the stored data of each user (state.get_data())
    shown,            \* the inline keyboards on screen in each user's chat, counted by kind
    asked,            \* the test id of each user's latest delete confirmation prompt
    notice,           \* what the last handler did: <<user, refusal or report or write, test ids>>
    cls_pool,         \* Database._pool
    gpc,              \* get_pool: position of each caller
    cpc,              \* close: position of the closing task
    made,             \* pools created so far
    created,          \* pools created since the last close()
    handed            \* pools returned to callers since the last close()

matrixVars == <<correct_answers, records, df, response_data>>
shapeVars == <<X_np, n_persons, n_items>>
configVars == <<max_iter, batch_size>>
loopVars == <<path, initial_guess, iteration, batch_idx, X_batch, runs, result>>
outVars == <<item_difficulty, person_ability>>
fitVars == <<configVars, loopVars, outVars>>

scoreVars == <<Ball, Daraja, sorted_index, No>>
propVars == <<Theta, Prop_Score, max_possible>>
likVars == <<pair, p_ij>>
ioVars == <<hpc, test_id, result_path, stages, disk, document, failed>>
chatVars == <<state, fsm_data, shown, asked, notice>>
poolVars == <<cls_pool, gpc, cpc, made, created, handed>>
sideVars == <<chatVars, poolVars>>
restVars == <<propVars, likVars, ioVars, sideVars>>

vars == <<pc, matrixVars, shapeVars, fitVars, scoreVars, restVars>>

----------------------------------------------------------------------------
(* Bounds of the model. *)

MaxItems == 2       \* longest answer key
MaxPersons == 2     \* largest cohort of submissions

(* fit's defaults, line 36. *)
DefaultMaxIter == 50
DefaultBatchSize == 2000

NoResult == [set |-> FALSE]

----------------------------------------------------------------------------
(* Floating-point cells. *)

NaN == <<>>
Num(v) == <<v>>
IsNaN(c) == c = NaN
Val(c) == c[1]

(* Sequences over S of length lo..hi. *)
SeqsOf(S, lo, hi) == UNION {[1..n -> S] : n \in lo..hi}

----------------------------------------------------------------------------
(* Response Matrix Preparation: db_rasch.py, export_test_results.          *)

KeyLetters == {"A", "B"}          \* the key is stored upper-cased (_parse_answers)
UserTokens == {"a", "B"}          \* what a person may have submitted

(* str.upper() on the tokens of the model. *)
Upper(t) ==
    CASE t = "a" -> "A"
      [] t = "b" -> "B"
      [] OTHER -> t

(* is_correct of line 624; i is the 0-based index of the code plus one. *)
IsCorrectExact(user_answers, key, i) ==
    /\ i <= Len(key)
    /\ user_answers[i] = key[i]

IsCorrect(user_answers, key, i) ==
    /\ i <= Len(key)
    /\ Upper(user_answers[i]) = Upper(key[i])

(* The row dict of one record: a 1/0 cell per submitted answer (622-625).  *)
RowOf(user_answers, key) ==
    [q \in 1..Len(user_answers) |->
        IF IsCorrect(user_answers, key, q) THEN 1 ELSE 0]

(* data after the loop of lines 613-627. *)
DataOf(recs, key) == [r \in 1..Len(recs) |-> RowOf(recs[r], key)]

(* pd.DataFrame(data): the columns are the union of the rows' keys, and a  *)
(* row without a column holds NaN there.                                   *)
FrameColumns(data) == UNION {DOMAIN data[r] : r \in 1..Len(data)}

DataFrame(data) ==
    [r \in 1..Len(data) |->
        [c \in FrameColumns(data) |->
            IF c \in DOMAIN data[r] THEN Num(data[r][c]) ELSE NaN]]

(* cols of line 631, the question columns only. *)
QuestionCols(key) == 1..Len(key)

(* df[cols] of line 632: a KeyError when a listed column is missing from   *)
(* the frame (an empty frame has none of them).                            *)
SelectRaises(data, key) ==
    \/ Len(data) = 0
    \/ ~(QuestionCols(key) \subseteq FrameColumns(data))

SelectAllCols(data, key) == DataFrame(data)

SelectCols(data, key) ==
    [r \in 1..Len(data) |-> [c \in QuestionCols(key) |-> DataFrame(data)[r][c]]]

(* TestManager.export_df_results: the frame of export_test_results, before *)
(* it is written to a workbook.                                            *)
export_df_results(recs, key) ==
    IF SelectRaises(DataOf(recs, key), key)
    THEN [raised |-> "KeyError", frame |-> <<>>]
    ELSE [raised |-> "none", frame |-> SelectCols(DataOf(recs, key), key)]

----------------------------------------------------------------------------
(* process_rasch_model: from the export to the call of fit.                *)

(* applymap(lambda x: 1 if x == 1 else 0), line 916. *)
ToBinary(c) == IF ~IsNaN(c) /\ Val(c) = 1 THEN 1 ELSE 0

BinaryFrame(frame) ==
    [r \in DOMAIN frame |-> [c \in DOMAIN frame[r] |-> ToBinary(frame[r][c])]]

NoFrame == <<>>

(* The estimator's variables before fit has run: process_rasch_model calls *)
(* fit with its defaults.                                                  *)
FitIdle ==
    /\ max_iter = DefaultMaxIter
    /\ batch_size = DefaultBatchSize
    /\ path = "none"
    /\ initial_guess = <<>>
    /\ iteration = 0
    /\ batch_idx = <<>>
    /\ X_batch = <<>>
    /\ runs = 0
    /\ result = NoResult
    /\ item_difficulty = <<>>
    /\ person_ability = <<>>

(* The report's columns before the scores are computed. *)
ScoreIdle ==
    /\ Ball = <<>>
    /\ Daraja = <<>>
    /\ sorted_index = <<>>
    /\ No = <<>>

(* The score columns of lines 925-942 before they are computed. *)
PropIdle ==
    /\ Theta = <<>>
    /\ Prop_Score = <<>>
    /\ max_possible = 0

(* No likelihood cell is being evaluated. *)
LikIdle ==
    /\ pair = <<>>
    /\ p_ij = <<>>

(* No invocation of the handler is running and no result file exists. *)
IoIdle ==
    /\ hpc = <<>>
    /\ test_id = <<>>
    /\ result_path = <<>>
    /\ stages = <<>>
    /\ disk = <<>>
    /\ document = <<>>
    /\ failed = <<>>

(* No conversation is under way and no task is in the database layer. *)
ChatIdle ==
    /\ state = <<>>
    /\ fsm_data = <<>>
    /\ shown = <<>>
    /\ asked = <<>>
    /\ notice = <<>>

PoolIdle ==
    /\ cls_pool = 0
    /\ gpc = <<>>
    /\ cpc = "idle"
    /\ made = 0
    /\ created = {}
    /\ handed = {}

SideIdle == ChatIdle /\ PoolIdle

InitMatrix ==
    /\ pc = "start"
    /\ correct_answers \in SeqsOf(KeyLetters, 1, MaxItems)
    /\ records \in SeqsOf(SeqsOf(UserTokens, 0, Len(correct_answers) + 1),
                          0, MaxPersons)
    /\ df = NoFrame
    /\ response_data = NoFrame
    /\ X_np = NoFrame
    /\ n_persons = 0
    /\ n_items = 0
    /\ FitIdle
    /\ ScoreIdle
    /\ PropIdle /\ LikIdle /\ IoIdle /\ SideIdle

(* line 889: df = await TestManager.export_df_results(test_id); an         *)
(* exception lands in the handler's except branch.                         *)
LoadResults ==
    /\ pc = "start"
    /\ LET got == export_df_results(records, correct_answers)
       IN  IF got.raised = "none"
           THEN /\ df' = got.frame
                /\ pc' = "loaded"
           ELSE /\ df' = NoFrame
                /\ pc' = "error"
    /\ UNCHANGED <<correct_answers, records, response_data, shapeVars, fitVars,
                   scoreVars, restVars>>

(* lines 912-916: the response columns, made binary. *)
PrepareResponses ==
    /\ pc = "loaded"
    /\ response_data' = BinaryFrame(df)
    /\ pc' = "prepared"
    /\ UNCHANGED <<correct_answers, records, df, shapeVars, fitVars,
                   scoreVars, restVars>>

(* line 921, and lines 37-38 of fit: the matrix and its shape. *)
CallFit ==
    /\ pc = "prepared"
    /\ X_np' = response_data
    /\ n_persons' = Len(response_data)
    /\ n_items' = Cardinality(DOMAIN response_data[1])
    /\ pc' = "fit_called"
    /\ UNCHANGED <<matrixVars, fitVars,
                   scoreVars, restVars>>

NextMatrix == LoadResults \/ PrepareResponses \/ CallFit

SpecMatrix == InitMatrix /\ [][NextMatrix]_vars

----------------------------------------------------------------------------
(* Claims about the response matrix (SpecMatrix).                          *)

MatrixBuilt == pc \in {"prepared", "fit_called"}

(* Case-insensitive equality of two tokens, stated without str.upper().    *)
CasePairs == {<<"a", "A">>, <<"A", "a">>, <<"b", "B">>, <<"B", "b">>}
SameIgnoringCase(s, t) == s = t \/ <<s, t>> \in CasePairs

Persons == 1..Len(records)
KeyPositions == 1..Len(correct_answers)
IsShort(i) == Len(records[i]) < Len(correct_answers)

(* C2: once the response matrix is built, for every person i and every key *)
(* position j the entry R[i,j] is 1 exactly when person i submitted a      *)
(* token at position j that equals the key's token at j ignoring case, and *)
(* is 0 otherwise.                                                         *)
C2_EntryIffCaseInsensitiveMatch ==
    MatrixBuilt =>
        \A i \in Persons : \A j \in KeyPositions :
            response_data[i][j] =
                IF j <= Len(records[i])
                   /\ SameIgnoringCase(records[i][j], correct_answers[j])
                THEN 1 ELSE 0

C2_Witness ==
    /\ pc = "fit_called"
    /\ \E i \in Persons : \E j \in KeyPositions :
          /\ j <= Len(records[i])
          /\ records[i][j] = "a" /\ correct_answers[j] = "A"
          /\ response_data[i][j] = 1
    /\ \E i \in Persons : \E j \in KeyPositions :
          /\ j <= Len(records[i])
          /\ records[i][j] = "a" /\ correct_answers[j] = "B"
          /\ response_data[i][j] = 0

(* C3: when some person's submission is shorter than the key (also when    *)
(* every submission is), building the response matrix never fails, and     *)
(* every key position beyond the end of a submission is recorded as 0.     *)
C3_ShortSubmissionNeverFails ==
    (\E i \in Persons : IsShort(i)) =>
        /\ pc # "error"
        /\ MatrixBuilt =>
              \A i \in Persons : \A j \in KeyPositions :
                  j > Len(records[i]) => response_data[i][j] = 0

(* C4: the matrix handed to fit is rectangular with every entry in {0,1};  *)
(* it has one row per submitter and one column per item of the key,        *)
(* whatever the submissions' lengths.                                      *)
C4_MatrixShape ==
    pc = "fit_called" =>
        /\ n_persons = Len(records)
        /\ n_items = Len(correct_answers)
        /\ DOMAIN X_np = Persons
        /\ \A i \in Persons :
              /\ DOMAIN X_np[i] = KeyPositions
              /\ \A j \in KeyPositions : X_np[i][j] \in {0, 1}

C4_Witness ==
    /\ pc = "fit_called"
    /\ \E i \in Persons : IsShort(i)
    /\ \E i \in Persons : Len(records[i]) > Len(correct_answers)

----------------------------------------------------------------------------
(* FastRaschModel: the likelihood and the estimator driver.                *)
(*                                                                         *)
(* Parameters live on a grid of reals; likelihood values are in units of   *)
(* 1e-6.  scipy's L-BFGS-B is modelled by what the driver relies on: its   *)
(* iterates stay inside the bounds it is given, each accepted iterate      *)
(* lowers the objective, it never moves a coordinate the objective does    *)
(* not depend on, and it may stop after any iteration up to maxiter.       *)
(* One call of minimize is one step of the model.                          *)

FitItems == 1       \* widest matrix handed to the estimator
FitPersons == 2     \* tallest matrix handed to the estimator
MaxIter == 2        \* largest max_iter argument

(* bounds = [(-5, 5)] * n_items + [(-5, 5)] * n_persons, line 49. *)
BoxLo == -5
BoxHi == 5
(* options={'maxiter': 10, ...}, line 65. *)
InnerMaxIter == 10
(* tol=1e-3 of line 36, in units of 1e-6. *)
Tol == 1000

ParamGrid == {-10, -5, 0, 5, 10}

(* -log(p) of lines 22-31 for p = 1/(1+exp(-diff)), in units of 1e-6,      *)
(* with the saturation branches of lines 23-26 (log(0) is infinite).       *)
Infinite == 2000000000
NegLogP(diff) ==
    CASE diff > 20 -> 0
      [] diff < -20 -> Infinite
      [] diff = 20 -> 0
      [] diff = 15 -> 0
      [] diff = 10 -> 45
      [] diff = 5 -> 6715
      [] diff = 0 -> 693147
      [] diff = -5 -> 5006715
      [] diff = -10 -> 10000045
      [] diff = -15 -> 15000000
      [] diff = -20 -> 20000000

(* One term of the sum: lines 30-33 (log(1-p) at diff is log(p) at -diff). *)
CellTerm(xij, diff) == IF xij = 1 THEN NegLogP(diff) ELSE NegLogP(-diff)

RECURSIVE RowTerms(_, _, _, _)
RowTerms(row, beta, theta_i, j) ==
    IF j = 0 THEN 0
    ELSE CellTerm(row[j], theta_i - beta[j]) + RowTerms(row, beta, theta_i, j - 1)

RECURSIVE SumRows(_, _, _, _)
SumRows(X, beta, theta, i) ==
    IF i = 0 THEN 0
    ELSE RowTerms(X[i], beta, theta[i], Len(beta)) + SumRows(X, beta, theta, i - 1)

(* _calculate_log_likelihood(X, beta, theta), lines 17-34. *)
calculate_log_likelihood(X, beta, theta) == SumRows(X, beta, theta, Len(X))

(* params[:n_items] and params[n_items:], lines 57-58 and 72-73. *)
BetaOf(params, ni) == SubSeq(params, 1, ni)
ThetaOf(params, ni) == SubSeq(params, ni + 1, Len(params))

(* X_np[batch_idx, :] and theta[batch_idx], lines 54 and 59. *)

RowsAt(X, idx) == [k \in 1..Len(idx) |-> X[idx[k]]]
ThetaAt(theta, idx) == [k \in 1..Len(idx) |-> theta[idx[k]]]

(* batch_neg_log_lik, lines 56-60. *)
batch_neg_log_lik(params, Xb, idx, ni) ==
    calculate_log_likelihood(Xb, BetaOf(params, ni),
                             ThetaAt(ThetaOf(params, ni), idx))

(* full_neg_log_lik, lines 71-74. *)
full_neg_log_lik(params, X, ni) ==
    calculate_log_likelihood(X, BetaOf(params, ni), ThetaOf(params, ni))

(* The objective of the running minimize call. *)
Objective(params) ==
    IF path = "mini"
    THEN batch_neg_log_lik(params, X_batch, batch_idx, n_items)
    ELSE full_neg_log_lik(params, X_np, n_items)

(* The coordinates the objective depends on: every item difficulty once a  *)
(* row is in play, and the ability of every person whose row is in play.   *)
RowsInPlay ==
    IF path = "mini" THEN {batch_idx[k] : k \in 1..Len(batch_idx)}
    ELSE 1..n_persons

MovingAll == 1..(n_items + n_persons)

Moving ==
    IF RowsInPlay = {} THEN {}
    ELSE (1..n_items) \cup {n_items + i : i \in RowsInPlay}

(* bounds, line 49. *)
BoundsWide(ni, np) == [k \in 1..(ni + np) |-> <<-10, 10>>]

Bounds(ni, np) == [k \in 1..(ni + np) |-> <<BoxLo, BoxHi>>]

(* Every point that agrees with base outside D and is within bnds on D. *)
RECURSIVE Points(_, _, _)
Points(base, D, bnds) ==
    IF D = {} THEN {base}
    ELSE LET k == CHOOSE k \in D : TRUE
         IN  UNION {Points([base EXCEPT ![k] = g], D \ {k}, bnds) :
                      g \in {g \in ParamGrid : bnds[k][1] <= g /\ g <= bnds[k][2]}}

(* np.zeros(...), lines 45-47. *)
Zeros(n) == [k \in 1..n |-> 0]

(* line 51. *)
UseMiniBatchGe(np, bs) == np >= bs

UseMiniBatch(np, bs) == np > bs

(* np.random.choice(n, size=b, replace=False): b distinct indices, in any  *)
(* order.                                                                  *)
SamplesWithReplacement(n, b) == [1..b -> 1..n]

Samples(n, b) ==
    {s \in [1..b -> 1..n] : \A a, c \in 1..b : a # c => s[a] # s[c]}

(* result.x[:n_items] and result.x[n_items:], lines 81-82. *)
ReturnedBetaSwapped(rx, ni, np) == SubSeq(rx, 1, np)

ReturnedBeta(rx, ni, np) == SubSeq(rx, 1, ni)

ReturnedTheta(rx, ni, np) == SubSeq(rx, ni + 1, Len(rx))

(* The response matrices the estimator is run on: nobody right, everybody *)
(* right, and person i right on the first i-1 items.                      *)
Matrices(np, ni) ==
    { [i \in 1..np |-> [j \in 1..ni |-> 0]],
      [i \in 1..np |-> [j \in 1..ni |-> 1]],
      [i \in 1..np |-> [j \in 1..ni |-> IF j < i THEN 1 ELSE 0]] }

InitFit ==
    /\ pc = "fit_entry"
    /\ correct_answers = <<>>
    /\ records = <<>>
    /\ df = NoFrame
    /\ n_persons \in 1..FitPersons
    /\ n_items \in 1..FitItems
    /\ X_np \in Matrices(n_persons, n_items)
    /\ response_data = X_np
    /\ max_iter \in 0..MaxIter
    /\ batch_size \in (-1)..(FitPersons + 1)
    /\ path = "none"
    /\ initial_guess = <<>>
    /\ iteration = 0
    /\ batch_idx = <<>>
    /\ X_batch = <<>>
    /\ runs = 0
    /\ result = NoResult
    /\ item_difficulty = <<>>
    /\ person_ability = <<>>
    /\ ScoreIdle
    /\ PropIdle /\ LikIdle /\ IoIdle /\ SideIdle

(* lines 45-51: the zero vector and the choice of the path. *)
FitBegin ==
    /\ pc = "fit_entry"
    /\ initial_guess' = Zeros(n_items + n_persons)
    /\ IF UseMiniBatch(n_persons, batch_size)
       THEN path' = "mini" /\ pc' = "mini_round"
       ELSE path' = "full" /\ pc' = "full_call"
    /\ UNCHANGED <<matrixVars, shapeVars, configVars, iteration, batch_idx,
                   X_batch, runs, result, outVars,
                   scoreVars, restVars>>

(* minimize(fun, x0, method='L-BFGS-B', bounds=bnds, options={'maxiter':  *)
(* maxiter, ...}): the points the call can return.  Every iterate of the   *)
(* call is such a point too, since the call may stop after any iteration.  *)
Minimize(x0, bnds, maxiter) ==
    IF maxiter <= 0 THEN {x0}
    ELSE {x0} \cup {v \in Points(x0, Moving, bnds) : Objective(v) < Objective(x0)}

OptimizeResult(v) == [set |-> TRUE, x |-> v, fun |-> Objective(v)]

(* lines 52-54: a round of the loop starts and samples its batch; a        *)
(* negative size makes np.random.choice raise ValueError.                  *)
MiniSample ==
    /\ pc = "mini_round"
    /\ iteration < max_iter
    /\ iteration' = iteration + 1
    /\ IF batch_size < 0
       THEN /\ pc' = "raised"
            /\ UNCHANGED <<batch_idx, X_batch>>
       ELSE /\ \E idx \in Samples(n_persons, batch_size) :
                 /\ batch_idx' = idx
                 /\ X_batch' = RowsAt(X_np, idx)
            /\ pc' = "mini_opt"
    /\ UNCHANGED <<matrixVars, shapeVars, configVars, path, initial_guess,
                   runs, result, outVars,
                   scoreVars, restVars>>

(* line 52: range(max_iter) is exhausted. *)
MiniLoopEnd ==
    /\ pc = "mini_round"
    /\ iteration >= max_iter
    /\ pc' = "fit_return"
    /\ UNCHANGED <<matrixVars, shapeVars, fitVars,
                   scoreVars, restVars>>

(* initial_guess = result.x, line 67. *)
CarryRestart(x0, rx) == x0

CarryForward(x0, rx) == rx

(* if result.fun < tol: break, lines 68-69. *)
BreakNever(fun) == FALSE

BreakNow(fun) == fun < Tol

(* lines 62-69: the round's minimize call; its result is carried forward,  *)
(* and the loop ends once the objective is below tol.                      *)
MiniMinimize ==
    /\ pc = "mini_opt"
    /\ \E v \in Minimize(initial_guess, Bounds(n_items, n_persons), InnerMaxIter) :
          /\ result' = OptimizeResult(v)
          /\ initial_guess' = CarryForward(initial_guess, v)
          /\ pc' = IF BreakNow(Objective(v)) THEN "fit_return" ELSE "mini_round"
    /\ runs' = runs + 1
    /\ UNCHANGED <<matrixVars, shapeVars, configVars, path, iteration,
                   batch_idx, X_batch, outVars,
                   scoreVars, restVars>>

(* lines 71-79: the single minimize call of the full-batch path. *)
FullMinimize ==
    /\ pc = "full_call"
    /\ \E v \in Minimize(initial_guess, Bounds(n_items, n_persons), max_iter) :
          result' = OptimizeResult(v)
    /\ runs' = runs + 1
    /\ pc' = "fit_return"
    /\ UNCHANGED <<matrixVars, shapeVars, configVars, path, initial_guess,
                   iteration, batch_idx, X_batch, outVars,
                   scoreVars, restVars>>

(* lines 81-82; result is unbound when the loop ran no round. *)
FitReturn ==
    /\ pc = "fit_return"
    /\ IF result.set
       THEN /\ item_difficulty' = ReturnedBeta(result.x, n_items, n_persons)
            /\ person_ability' = ReturnedTheta(result.x, n_items, n_persons)
            /\ pc' = "fitted"
       ELSE /\ pc' = "raised"
            /\ UNCHANGED outVars
    /\ UNCHANGED <<matrixVars, shapeVars, configVars, loopVars,
                   scoreVars, restVars>>

NextFit ==
    \/ FitBegin
    \/ MiniSample
    \/ MiniLoopEnd
    \/ MiniMinimize
    \/ FullMinimize
    \/ FitReturn

SpecFit == InitFit /\ [][NextFit]_vars

----------------------------------------------------------------------------
(* Claims about the estimator driver (SpecFit).                            *)

PathChosen == pc # "fit_entry"
InBox(v) == \A k \in DOMAIN v : BoxLo <= v[k] /\ v[k] <= BoxHi

(* C1: the full-batch path is taken exactly when n_persons <= batch_size   *)
(* and the mini-batch path exactly when n_persons > batch_size; the        *)
(* full-batch path makes a single minimize call; with the default          *)
(* batch_size, 100 persons select full-batch and 5000 select mini-batch.   *)
C1_PathSelection ==
    /\ PathChosen =>
          /\ (path = "full") <=> (n_persons <= batch_size)
          /\ (path = "mini") <=> (n_persons > batch_size)
    /\ (path = "full" /\ pc \in {"fit_return", "fitted"}) => runs = 1
    /\ ~UseMiniBatch(100, DefaultBatchSize)
    /\ UseMiniBatch(5000, DefaultBatchSize)

C1_Witness ==
    /\ pc = "fitted"
    /\ path = "full"
    /\ n_persons = batch_size
    /\ runs = 1

(* C5: the parameter vector starts as the zero vector, and the starting    *)
(* point of every minimize call, every point a call returns and the        *)
(* returned beta and theta have every entry in [-5, 5].                    *)
C5_ParametersInBox ==
    /\ (PathChosen /\ runs = 0) => initial_guess = Zeros(n_items + n_persons)
    /\ PathChosen => InBox(initial_guess)
    /\ result.set => InBox(result.x)
    /\ pc = "fitted" => InBox(item_difficulty) /\ InBox(person_ability)

C5_Witness ==
    /\ pc = "fitted"
    /\ \E j \in DOMAIN item_difficulty : item_difficulty[j] = BoxLo
    /\ \E i \in DOMAIN person_ability : person_ability[i] = BoxHi

(* The likelihood of person p's own row under p's own ability entry. *)
PersonTerms(params, p) ==
    RowTerms(X_np[p], BetaOf(params, n_items), ThetaOf(params, n_items)[p],
             n_items)

RECURSIVE SumPersons(_, _, _)
SumPersons(params, idx, k) ==
    IF k = 0 THEN 0
    ELSE PersonTerms(params, idx[k]) + SumPersons(params, idx, k - 1)

(* C6: after fit returns, item_difficulty has n_items entries and          *)
(* person_ability has n_persons entries; item_difficulty[j] is the         *)
(* difficulty the objective uses for column j and person_ability[i] the    *)
(* ability it uses for row i; in a mini-batch round the objective pairs    *)
(* each sampled row with the ability entry of that same person.            *)
C6_ResultShapeAndOrder ==
    /\ pc = "fitted" =>
          /\ Len(item_difficulty) = n_items
          /\ Len(person_ability) = n_persons
          /\ \A j \in 1..n_items :
                item_difficulty[j] = BetaOf(result.x, n_items)[j]
          /\ \A i \in 1..n_persons :
                person_ability[i] = ThetaOf(result.x, n_items)[i]
    /\ pc = "mini_opt" =>
          /\ \A k \in 1..Len(batch_idx) : X_batch[k] = X_np[batch_idx[k]]
          /\ Objective(initial_guess) =
                SumPersons(initial_guess, batch_idx, Len(batch_idx))

C6_Witness ==
    /\ pc = "fitted"
    /\ path = "mini"
    /\ n_items # n_persons
    /\ \E i, k \in 1..n_persons : person_ability[i] # person_ability[k]

(* The outputs fit leaves for its caller: it returns None and stores       *)
(* lines 81-82 only.                                                       *)
Visible == <<item_difficulty, person_ability>>

(* Matrices fit is handed although they are no response matrices: one     *)
(* with an entry other than 0 and 1 and, for n_persons = 0, one without    *)
(* rows.                                                                   *)
InvalidMatrices(np, ni) ==
    { [i \in 1..np |-> [j \in 1..ni |-> IF j < i THEN 1 ELSE 2]] }

(* fit called directly, on any matrix that has a shape. *)
InitFitAny ==
    /\ pc = "fit_entry"
    /\ correct_answers = <<>>
    /\ records = <<>>
    /\ df = NoFrame
    /\ n_persons \in 0..FitPersons
    /\ n_items \in 1..FitItems
    /\ X_np \in Matrices(n_persons, n_items) \cup InvalidMatrices(n_persons, n_items)
    /\ response_data = X_np
    /\ max_iter \in 0..MaxIter
    /\ batch_size \in (-1)..(FitPersons + 1)
    /\ path = "none"
    /\ initial_guess = <<>>
    /\ iteration = 0
    /\ batch_idx = <<>>
    /\ X_batch = <<>>
    /\ runs = 0
    /\ result = NoResult
    /\ item_difficulty = <<>>
    /\ person_ability = <<>>
    /\ ScoreIdle
    /\ PropIdle /\ LikIdle /\ IoIdle /\ SideIdle

SpecFitAny == InitFitAny /\ [][NextFit]_vars

IsResponseMatrix(X) ==
    /\ Len(X) > 0
    /\ \A i \in 1..Len(X) : \A j \in 1..Len(X[i]) : X[i][j] \in {0, 1}

(* C14: a matrix that is empty or has an entry other than 0 and 1 is       *)
(* rejected before any optimizer step runs, and no parameter estimate is   *)
(* produced for it.                                                        *)
C14_InvalidInputRejected ==
    ~IsResponseMatrix(X_np) =>
        /\ runs = 0
        /\ pc \notin {"mini_opt", "fitted"}
        /\ Visible = <<<<>>, <<>>>>


(* The objective of a round that samples idx, and the parameters it reads. *)
RoundObjective(params, idx) ==
    batch_neg_log_lik(params, RowsAt(X_np, idx), idx, n_items)
RoundMoving(idx) ==
    IF idx = <<>> THEN {}
    ELSE (1..n_items) \cup {n_items + idx[k] : k \in 1..Len(idx)}

(* What a run on the same matrix with the same arguments can return when   *)
(* its first round already meets tol (the break of lines 68-69).           *)
ConvergedAtOnce ==
    IF max_iter <= 0 \/ batch_size < 0 THEN {}
    ELSE UNION {
           {<<BetaOf(v, n_items), ThetaOf(v, n_items)>> :
               v \in {v \in Points(Zeros(n_items + n_persons), RoundMoving(idx),
                                   Bounds(n_items, n_persons)) :
                         /\ RoundObjective(v, idx) < Tol
                         /\ \/ v = Zeros(n_items + n_persons)
                            \/ RoundObjective(v, idx)
                                 < RoundObjective(Zeros(n_items + n_persons), idx)}}
           : idx \in Samples(n_persons, batch_size)}

(* The loop of line 52 ran all its max_iter rounds, at least one, and the  *)
(* last one did not meet tol.                                              *)
CapReached ==
    /\ path = "mini"
    /\ pc \in {"fit_return", "fitted", "raised"}
    /\ iteration >= max_iter
    /\ result.set
    /\ result.fun >= Tol

(* C13: when a fit reaches the iteration cap without meeting the           *)
(* tolerance, fit completes without raising, and what it leaves for the    *)
(* caller differs from what a run that did converge leaves.                *)
C13_CapReachedIsVisible ==
    CapReached =>
        /\ pc # "raised"
        /\ pc = "fitted" => Visible \notin ConvergedAtOnce

(* C15: when batch_size <= 0, or when batch_size > n_persons, fit takes    *)
(* the full-batch path and completes instead of failing.                   *)
C15_BadBatchSizeFallsBack ==
    (PathChosen /\ (batch_size <= 0 \/ batch_size > n_persons)) =>
        /\ path = "full"
        /\ pc # "raised"

ZeroVariance(X) == \A i, k \in 1..Len(X) : X[i] = X[k]

(* C16: for a zero-variance response matrix (all ones, all zeros, all rows *)
(* identical) fit completes without raising and returns beta of length     *)
(* n_items and theta of length n_persons.                                  *)
C16_ZeroVarianceCompletes ==
    ZeroVariance(X_np) =>
        /\ pc # "raised"
        /\ pc = "fitted" =>
              /\ Len(item_difficulty) = n_items
              /\ Len(person_ability) = n_persons

----------------------------------------------------------------------------
(* Score Transformer: process_rasch_model, grades and ranking.             *)
(*                                                                         *)
(* Ball is held in hundredths (it is rounded to two decimals at line 930). *)
(* pd.cut and sort_values are functions of the Ball column alone, so the   *)
(* cohort here starts with its Ball column drawn from BallValues.  Ball is *)
(* 50 + 10 z with |z| <= (n-1)/sqrt(n) in a cohort of n, so it passes 70   *)
(* from n = 6 and 93 from n = 21; it is NaN for everybody when all         *)
(* abilities are equal (zscore divides by a zero deviation).               *)

MaxCohort == 3      \* largest cohort that is graded and ranked

BallValues ==
    {0, 4599, 4600, 5000, 5500, 6000, 6500, 6999, 7000, 8000, 9000, 9300, 9477}

(* bins and labels, lines 945-946, the bins in hundredths. *)
bins == <<0, 4600, 5000, 5500, 6000, 6500, 7000, 9300>>
labels == <<"NC", "C", "C+", "B", "B+", "A", "A+">>
NoLabel == "NaN"

(* pd.cut(ball, bins=bins, labels=labels, right=False), line 947: the      *)
(* label of the interval [bins[k], bins[k+1]) that holds the value, and    *)
(* NaN for a value in none of them.                                        *)
CutRightClosed(ball) ==
    IF IsNaN(ball) THEN NoLabel
    ELSE LET hit == {k \in 1..(Len(bins) - 1) :
                        bins[k] < Val(ball) /\ Val(ball) <= bins[k + 1]}
         IN  IF hit = {} THEN NoLabel ELSE labels[CHOOSE k \in hit : TRUE]

Cut(ball) ==
    IF IsNaN(ball) THEN NoLabel
    ELSE LET hit == {k \in 1..(Len(bins) - 1) :
                        bins[k] <= Val(ball) /\ Val(ball) < bins[k + 1]}
         IN  IF hit = {} THEN NoLabel ELSE labels[CHOOSE k \in hit : TRUE]

(* The persons of a column, and its NaN rows in their original order. *)
RowsOf(col) == 1..Len(col)
NumericRows(col) == {p \in RowsOf(col) : ~IsNaN(col[p])}
NaNRows(col) == {p \in RowsOf(col) : IsNaN(col[p])}
Ascending(S) ==
    [k \in 1..Cardinality(S) |->
        CHOOSE p \in S : Cardinality({q \in S : q < p}) = k - 1]
Arrangements(S) ==
    {o \in [1..Cardinality(S) -> S] :
        \A a, c \in 1..Cardinality(S) : a # c => o[a] # o[c]}

(* df.sort_values(by='Ball', ascending=False), line 957: the default kind  *)
(* is quicksort, which is not stable, so rows with equal Ball may come out *)
(* in either order; NaN rows go last, in their original order.             *)
SortedOrdersAscending(col) ==
    {o \o Ascending(NaNRows(col)) : o \in
        {o \in Arrangements(NumericRows(col)) :
            \A k \in 1..(Len(o) - 1) : Val(col[o[k]]) <= Val(col[o[k + 1]])}}

SortedOrders(col) ==
    {o \o Ascending(NaNRows(col)) : o \in
        {o \in Arrangements(NumericRows(col)) :
            \A k \in 1..(Len(o) - 1) : Val(col[o[k]]) >= Val(col[o[k + 1]])}}

(* df['№'] = range(1, len(df) + 1), line 958: the position in the sorted   *)
(* frame, per person.                                                      *)
RanksOf(order) ==
    [p \in 1..Len(order) |-> CHOOSE k \in 1..Len(order) : order[k] = p]

BallColumns(n) ==
    [1..n -> {Num(v) : v \in BallValues}] \cup {[p \in 1..n |-> NaN]}

(* The handler after line 930: Ball is computed, jittered and rounded. *)
InitScore ==
    /\ pc = "scored"
    /\ correct_answers = <<>>
    /\ records = <<>>
    /\ df = NoFrame
    /\ response_data = NoFrame
    /\ X_np = NoFrame
    /\ n_persons = 0
    /\ n_items = 0
    /\ FitIdle
    /\ Ball \in UNION {BallColumns(n) : n \in 1..MaxCohort}
    /\ Daraja = <<>>
    /\ sorted_index = <<>>
    /\ No = <<>>
    /\ PropIdle /\ LikIdle /\ IoIdle /\ SideIdle

(* lines 944-947. *)
AssignGrades ==
    /\ pc = "scored"
    /\ Daraja' = [p \in RowsOf(Ball) |-> Cut(Ball[p])]
    /\ pc' = "graded"
    /\ UNCHANGED <<matrixVars, shapeVars, fitVars, Ball, sorted_index, No,
                   restVars>>

(* lines 957-958. *)
SortAndRank ==
    /\ pc = "graded"
    /\ \E o \in SortedOrders(Ball) :
          /\ sorted_index' = o
          /\ No' = RanksOf(o)
    /\ pc' = "ranked"
    /\ UNCHANGED <<matrixVars, shapeVars, fitVars, Ball, Daraja, restVars>>

NextScore == AssignGrades \/ SortAndRank

SpecScore == InitScore /\ [][NextScore]_vars

----------------------------------------------------------------------------
(* Claims about grades and ranking (SpecScore).                            *)

Graded == pc \in {"graded", "ranked"}
Cohort == RowsOf(Ball)
BallOf(p) == Val(Ball[p])
HasBall(p) == ~IsNaN(Ball[p])

(* C7: every Ball of 70 or more, 93 and anything above it included, gets   *)
(* the grade A+; nobody with Ball >= 70 is left without a grade.           *)
C7_TopBandIsAPlus ==
    Graded =>
        \A p \in Cohort : (HasBall(p) /\ BallOf(p) >= 7000) => Daraja[p] = "A+"

(* The bands as the claim lists them. *)
BandOf(v) ==
    CASE v < 4600 -> "NC"
      [] v >= 4600 /\ v < 5000 -> "C"
      [] v >= 5000 /\ v < 5500 -> "C+"
      [] v >= 5500 /\ v < 6000 -> "B"
      [] v >= 6000 /\ v < 6500 -> "B+"
      [] v >= 6500 -> "A"

GradeOrder(g) == CHOOSE k \in 1..Len(labels) : labels[k] = g
InBands(p) == HasBall(p) /\ BallOf(p) >= 0 /\ BallOf(p) < 7000

(* C8: for Ball in [0, 70) the grade follows the left-closed, right-open   *)
(* bands [0,46) NC, [46,50) C, [50,55) C+, [55,60) B, [60,65) B+,          *)
(* [65,70) A (so 45.99 is NC, 46.00 is C, 69.99 is A), and a higher Ball   *)
(* never gets a lower grade.                                               *)
C8_BandsLeftClosed ==
    Graded =>
        /\ \A p \in Cohort : InBands(p) => Daraja[p] = BandOf(BallOf(p))
        /\ \A p, q \in Cohort :
              (InBands(p) /\ InBands(q) /\ BallOf(p) <= BallOf(q)) =>
                  GradeOrder(Daraja[p]) <= GradeOrder(Daraja[q])

C8_Witness ==
    /\ Graded
    /\ \E p, q, r \in Cohort :
          /\ Ball[p] = Num(4599) /\ Daraja[p] = "NC"
          /\ Ball[q] = Num(4600) /\ Daraja[q] = "C"
          /\ Ball[r] = Num(6999) /\ Daraja[r] = "A"

(* C9: in the final report the ranks are exactly 1..n, one per person, and *)
(* a person with a strictly higher Ball has a strictly smaller rank; Ball  *)
(* [80, 60, 90] for [P1, P2, P3] gives P3 = 1, P1 = 2, P2 = 3.             *)
C9_RanksFollowBall ==
    pc = "ranked" =>
        /\ DOMAIN No = Cohort
        /\ {No[p] : p \in Cohort} = 1..Len(Ball)
        /\ \A p, q \in Cohort :
              (HasBall(p) /\ HasBall(q) /\ BallOf(p) > BallOf(q)) => No[p] < No[q]
        /\ Ball = <<Num(8000), Num(6000), Num(9000)>> => No = <<2, 3, 1>>

C9_Witness ==
    /\ pc = "ranked"
    /\ Ball = <<Num(8000), Num(6000), Num(9000)>>
    /\ No = <<2, 3, 1>>

(* C10: of two persons with equal final Ball, the one earlier in the       *)
(* original input order always gets the smaller rank.                      *)
C10_TiesKeepInputOrder ==
    pc = "ranked" =>
        \A p, q \in Cohort :
            (HasBall(p) /\ HasBall(q) /\ p < q /\ BallOf(p) = BallOf(q)) =>
                No[p] < No[q]

----------------------------------------------------------------------------
(* Score Transformer: from the abilities to Ball and Prop_Score,           *)
(* process_rasch_model lines 925-942.  The abilities are values the        *)
(* estimator returns on its grid; Ball and Prop_Score are in hundredths.   *)

ThetaValues == {g \in ParamGrid : BoxLo <= g /\ g <= BoxHi}

(* len(response_cols), line 933: the tests' question counts. *)
ColumnCounts == {35, 45, 65, 90}

(* The score the lowest ability is mapped to, lines 940 and 942. *)
BaseScore == 65

(* np.random.uniform(-0.05, 0.05), line 929, in thousandths: draws from    *)
(* [-0.05, 0.05), its lowest value among them.                             *)
JitterValues == {-50, 0, 49}

(* round(decimals=2), line 930: thousandths to the nearest hundredth. *)
RoundToHundredths(t) == (t + 5) \div 10

RECURSIVE SumOf(_, _)
SumOf(col, k) == IF k = 0 THEN 0 ELSE col[k] + SumOf(col, k - 1)

RECURSIVE SumOfSquares(_, _)
SumOfSquares(col, k) ==
    IF k = 0 THEN 0 ELSE col[k] * col[k] + SumOfSquares(col, k - 1)

(* n (a[i] - a.mean()) and n^2 a.var() of a column of n values: the        *)
(* numerator and the squared denominator of zscore, cleared of fractions.  *)
Deviation(col, i) == Len(col) * col[i] - SumOf(col, Len(col))
Spread(col) ==
    Len(col) * SumOfSquares(col, Len(col))
        - SumOf(col, Len(col)) * SumOf(col, Len(col))

(* round(1000 d / sqrt(v)) for d >= 0 and v > 0. *)
RoundedDown(d, v) ==
    CHOOSE r \in 0..(1000 * d) :
        /\ r * r * v <= 1000000 * d * d
        /\ 1000000 * d * d < (r + 1) * (r + 1) * v

RoundedRatio(d, v) ==
    LET r == CHOOSE r \in 0..(1000 * d) :
                 /\ r * r * v <= 1000000 * d * d
                 /\ 1000000 * d * d < (r + 1) * (r + 1) * v
    IN  IF 4 * (1000000 * d * d - (r * r + r) * v) >= v THEN r + 1 ELSE r

(* np.round(50 + 10 * zscore(df['Theta']), 2), lines 926-927, in           *)
(* hundredths.  zscore divides the deviations by the standard deviation;   *)
(* when that is zero every deviation is zero too and 0/0 is NaN.           *)
BallOfTheta(col) ==
    [i \in 1..Len(col) |->
        IF Spread(col) = 0 THEN NaN
        ELSE IF Deviation(col, i) >= 0
             THEN Num(5000 + RoundedRatio(Deviation(col, i), Spread(col)))
             ELSE Num(5000 - RoundedRatio(-Deviation(col, i), Spread(col)))]

(* Lines 929-930; NaN plus anything is NaN. *)
Jittered(col, shift) ==
    [i \in 1..Len(col) |->
        IF IsNaN(col[i]) THEN NaN
        ELSE Num(RoundToHundredths(10 * Val(col[i]) + shift[i]))]

(* df['Theta'].min() and df['Theta'].max() - theta_min, lines 937-938. *)
MinOf(col) == CHOOSE v \in {col[i] : i \in 1..Len(col)} :
                  \A i \in 1..Len(col) : v <= col[i]
MaxOf(col) == CHOOSE v \in {col[i] : i \in 1..Len(col)} :
                  \A i \in 1..Len(col) : v >= col[i]

(* Line 940 for one person, in hundredths. *)
ScaledFromTop(t, lo, range, top) ==
    ((100 * (t - lo) * (BaseScore - top)) \div range) + 100 * top

Scaled(t, lo, range, top) ==
    ((100 * (t - lo) * (top - BaseScore)) \div range) + 100 * BaseScore

(* Lines 937-942. *)
PropScoreOf(col, top) ==
    LET theta_min == MinOf(col)
        theta_range == MaxOf(col) - theta_min
    IN  IF theta_range > 0
        THEN [i \in 1..Len(col) |-> Num(Scaled(col[i], theta_min, theta_range, top))]
        ELSE [i \in 1..Len(col) |-> Num(100 * BaseScore)]

(* The handler after line 925: df['Theta'] holds the fitted abilities. *)
InitTransform ==
    /\ pc = "theta_set"
    /\ correct_answers = <<>>
    /\ records = <<>>
    /\ df = NoFrame
    /\ response_data = NoFrame
    /\ X_np = NoFrame
    /\ n_persons = 0
    /\ n_items = 0
    /\ FitIdle
    /\ ScoreIdle
    /\ Theta \in UNION {[1..n -> ThetaValues] : n \in 1..MaxCohort}
    /\ Prop_Score = <<>>
    /\ max_possible \in ColumnCounts
    /\ LikIdle /\ IoIdle /\ SideIdle

(* lines 926-927. *)
ComputeBall ==
    /\ pc = "theta_set"
    /\ Ball' = BallOfTheta(Theta)
    /\ pc' = "ball_rounded"
    /\ UNCHANGED <<matrixVars, shapeVars, fitVars, Daraja, sorted_index, No,
                   propVars, likVars, ioVars, sideVars>>

(* lines 929-930. *)
AddJitter ==
    /\ pc = "ball_rounded"
    /\ \E shift \in [1..Len(Ball) -> JitterValues] :
          Ball' = Jittered(Ball, shift)
    /\ pc' = "ball_jittered"
    /\ UNCHANGED <<matrixVars, shapeVars, fitVars, Daraja, sorted_index, No,
                   propVars, likVars, ioVars, sideVars>>

(* lines 933-942. *)
ProportionalScore ==
    /\ pc = "ball_jittered"
    /\ Prop_Score' = PropScoreOf(Theta, max_possible)
    /\ pc' = "scored"
    /\ UNCHANGED <<matrixVars, shapeVars, fitVars, scoreVars, Theta,
                   max_possible, likVars, ioVars, sideVars>>

NextTransform == ComputeBall \/ AddJitter \/ ProportionalScore

SpecTransform == InitTransform /\ [][NextTransform]_vars

----------------------------------------------------------------------------
(* Claims about Ball and Prop_Score (SpecTransform).                       *)

People == 1..Len(Theta)
AllEqual(col) == \A i, k \in 1..Len(col) : col[i] = col[k]
Within(v, lo, hi) == lo <= v /\ v <= hi

(* C11: when every person of the cohort has the same theta, every person's *)
(* reported Ball is 50 within the 0.05 of the jitter, and every person's   *)
(* proportional score is exactly 65.                                       *)
C11_EqualThetasGiveFiftyAndSixtyFive ==
    AllEqual(Theta) =>
        /\ pc \in {"ball_jittered", "scored"} =>
              \A i \in People :
                  /\ ~IsNaN(Ball[i])
                  /\ Within(Val(Ball[i]), 4995, 5005)
        /\ pc = "scored" => \A i \in People : Prop_Score[i] = Num(6500)

(* C12: when theta_max > theta_min, Prop_Score is the linear map of theta  *)
(* that gives 65 to the lowest theta and max_possible to the highest, and  *)
(* every other person a value between the two; when max_possible < 65 a    *)
(* higher theta gets a lower Prop_Score.                                   *)
C12_ProportionalIsLinear ==
    (pc = "scored" /\ MaxOf(Theta) > MinOf(Theta)) =>
        /\ \A i \in People :
              /\ Theta[i] = MinOf(Theta) => Prop_Score[i] = Num(6500)
              /\ Theta[i] = MaxOf(Theta) => Prop_Score[i] = Num(100 * max_possible)
              /\ (Val(Prop_Score[i]) - 6500) * (MaxOf(Theta) - MinOf(Theta))
                    = (Theta[i] - MinOf(Theta)) * (100 * max_possible - 6500)
              /\ \/ Within(Val(Prop_Score[i]), 6500, 100 * max_possible)
                 \/ Within(Val(Prop_Score[i]), 100 * max_possible, 6500)
        /\ max_possible < 65 =>
              \A i, k \in People :
                  Theta[i] > Theta[k] => Val(Prop_Score[i]) < Val(Prop_Score[k])

C12_Witness ==
    /\ pc = "scored"
    /\ max_possible < 65
    /\ \E i, k, m \in People :
          /\ Theta[i] < Theta[k] /\ Theta[k] < Theta[m]
          /\ Val(Prop_Score[i]) = 6500
          /\ Val(Prop_Score[m]) = 100 * max_possible
          /\ Val(Prop_Score[k]) < 6500
          /\ Val(Prop_Score[k]) > 100 * max_possible

----------------------------------------------------------------------------
(* FastRaschModel._calculate_log_likelihood: the probability of one cell,  *)
(* lines 22-27, in units of 1e-9.                                          *)

(* p = 1.0, line 24. *)
One == 1000000000

(* The clip of lines 23 and 25. *)
ClipAt == 20

LikValues == {-20, -15, -10, -5, 0, 5, 10, 15, 20}

(* if diff > 20, line 23, and elif diff < -20, line 25. *)
SaturatesHighClosed(d) == d >= ClipAt

SaturatesHigh(d) == d > ClipAt
SaturatesLow(d) == d < -ClipAt

(* 1.0 / (1.0 + np.exp(-diff)), line 27, in float64. *)
Logistic(d) ==
    CASE d = -20 -> 2
      [] d = -15 -> 306
      [] d = -10 -> 45398
      [] d = -5 -> 6692851
      [] d = 0 -> 500000000
      [] d = 5 -> 993307149
      [] d = 10 -> 999954602
      [] d = 15 -> 999999694
      [] d = 20 -> 999999998

(* lines 22-27. *)
p_of(d) ==
    IF SaturatesHigh(d) THEN One
    ELSE IF SaturatesLow(d) THEN 0
    ELSE Logistic(d)

(* One cell of the double loop of lines 20-21, with its theta[i], beta[j]. *)
InitCell ==
    /\ pc = "cell"
    /\ correct_answers = <<>>
    /\ records = <<>>
    /\ df = NoFrame
    /\ response_data = NoFrame
    /\ X_np = NoFrame
    /\ n_persons = 0
    /\ n_items = 0
    /\ FitIdle
    /\ ScoreIdle
    /\ PropIdle
    /\ pair \in LikValues \X LikValues
    /\ p_ij = <<>>
    /\ IoIdle /\ SideIdle

(* lines 22-27. *)
EvaluateCell ==
    /\ pc = "cell"
    /\ p_ij' = Num(p_of(pair[1] - pair[2]))
    /\ pc' = "cell_done"
    /\ UNCHANGED <<matrixVars, shapeVars, fitVars, scoreVars, propVars, pair,
                   ioVars, sideVars>>

NextCell == EvaluateCell

SpecCell == InitCell /\ [][NextCell]_vars

CellDiff == pair[1] - pair[2]

(* C17: for every pair (theta_i, beta_j), p lies in [0, 1]; it is exactly  *)
(* 1 when theta_i - beta_j > 20, exactly 0 when the difference is below    *)
(* -20, and strictly between 0 and 1 when the difference is in [-20, 20],  *)
(* at exactly +20 and -20 too.                                             *)
C17_ProbabilityInUnitInterval ==
    pc = "cell_done" =>
        /\ 0 <= Val(p_ij) /\ Val(p_ij) <= One
        /\ CellDiff > 20 => Val(p_ij) = One
        /\ CellDiff < -20 => Val(p_ij) = 0
        /\ (-20 <= CellDiff /\ CellDiff <= 20) =>
              (0 < Val(p_ij) /\ Val(p_ij) < One)

C17_Witness ==
    /\ pc = "cell_done"
    /\ CellDiff = 20
    /\ 0 < Val(p_ij) /\ Val(p_ij) < One

----------------------------------------------------------------------------
(* process_rasch_model as the dispatcher runs it: several invocations at   *)
(* once, each a coroutine that gives way to the others at its awaits and   *)
(* nowhere else.  All of them write their report into the same working     *)
(* directory.                                                              *)

MaxInvocations == 2     \* invocations in flight

Invocations == 1..MaxInvocations

(* message.text.strip().lower(), line 881. *)
TestIds == {"t1", "t2"}

(* result_path = f'rasch_{test_id}_natijalar.xlsx', line 955. *)
NoPath == <<>>
ResultPath(t) == <<"rasch_", t, "_natijalar.xlsx">>
Paths == {ResultPath(t) : t \in TestIds}

(* A file: who wrote it, and whether to_excel finished writing it. *)
NoFile == <<>>
File(h, whole) == <<h, whole>>
Report(h) == File(h, TRUE)

(* The synchronous part of the try block, lines 891-959, in order: the     *)
(* fit (920-921), the scores (925-942), the grades (945-947), the path     *)
(* (950-955), the ranking (957-958) and to_excel (959).                    *)
Pipeline == <<"fit", "score", "grade", "path", "rank", "save">>

(* The awaits of lines 889, 961, 963 and 977/980. *)
Awaiting == {"loading", "deleting", "sending", "except"}

InitHandler ==
    /\ pc = "serving"
    /\ correct_answers = <<>>
    /\ records = <<>>
    /\ df = NoFrame
    /\ response_data = NoFrame
    /\ X_np = NoFrame
    /\ n_persons = 0
    /\ n_items = 0
    /\ FitIdle
    /\ ScoreIdle
    /\ PropIdle
    /\ LikIdle
    /\ hpc = [h \in Invocations |-> "received"]
    /\ test_id = [h \in Invocations |-> ""]
    /\ result_path = [h \in Invocations |-> NoPath]
    /\ stages = [h \in Invocations |-> <<>>]
    /\ disk = [f \in Paths |-> NoFile]
    /\ document = [h \in Invocations |-> NoFile]
    /\ failed = [h \in Invocations |-> FALSE]
    /\ SideIdle

calcVars == <<pc, matrixVars, shapeVars, fitVars, scoreVars, propVars, likVars,
              sideVars>>

(* lines 878-883: a non-admin is turned away before the try block. *)
Receive(h) ==
    /\ hpc[h] = "received"
    /\ \E admin \in BOOLEAN : \E t \in TestIds :
          IF admin
          THEN /\ test_id' = [test_id EXCEPT ![h] = t]
               /\ hpc' = [hpc EXCEPT ![h] = "loading"]
          ELSE /\ hpc' = [hpc EXCEPT ![h] = "done"]
               /\ UNCHANGED test_id
    /\ UNCHANGED <<calcVars, result_path, stages, disk, document, failed>>

(* line 889: the export returns or raises. *)
Load(h) ==
    /\ hpc[h] = "loading"
    /\ \E ok \in BOOLEAN :
          hpc' = [hpc EXCEPT ![h] = IF ok THEN "computing" ELSE "except"]
    /\ UNCHANGED <<calcVars, test_id, result_path, stages, disk, document, failed>>

(* lines 891-959, which hold no await: the first k stages complete; the    *)
(* path is bound once line 955 has run; to_excel writes the file, and may  *)
(* leave a part of it when it fails.                                       *)
Compute(h) ==
    /\ hpc[h] = "computing"
    /\ \E k \in 0..Len(Pipeline) : \E partial \in BOOLEAN :
          /\ stages' = [stages EXCEPT ![h] = SubSeq(Pipeline, 1, k)]
          /\ result_path' = [result_path EXCEPT ![h] =
                IF k >= 4 THEN ResultPath(test_id[h]) ELSE NoPath]
          /\ disk' = IF k = Len(Pipeline)
                     THEN [disk EXCEPT ![ResultPath(test_id[h])] = Report(h)]
                     ELSE IF k = Len(Pipeline) - 1 /\ partial
                     THEN [disk EXCEPT ![ResultPath(test_id[h])] = File(h, FALSE)]
                     ELSE disk
          /\ hpc' = [hpc EXCEPT ![h] =
                IF k = Len(Pipeline) THEN "deleting" ELSE "except"]
    /\ UNCHANGED <<calcVars, test_id, document, failed>>

(* line 961. *)
DeleteProcessing(h) ==
    /\ hpc[h] = "deleting"
    /\ \E ok \in BOOLEAN :
          hpc' = [hpc EXCEPT ![h] = IF ok THEN "sending" ELSE "except"]
    /\ UNCHANGED <<calcVars, test_id, result_path, stages, disk, document, failed>>

(* lines 963-968: the file at result_path is read and sent. *)
SendDocument(h) ==
    /\ hpc[h] = "sending"
    /\ \E ok \in BOOLEAN :
          IF ok /\ disk[result_path[h]] # NoFile
          THEN /\ document' = [document EXCEPT ![h] = disk[result_path[h]]]
               /\ hpc' = [hpc EXCEPT ![h] = "finally"]
          ELSE /\ hpc' = [hpc EXCEPT ![h] = "except"]
               /\ UNCHANGED document
    /\ UNCHANGED <<calcVars, test_id, result_path, stages, disk, failed>>

(* lines 970-980. *)
AnswerError(h) ==
    /\ hpc[h] = "except"
    /\ failed' = [failed EXCEPT ![h] = TRUE]
    /\ hpc' = [hpc EXCEPT ![h] = "finally"]
    /\ UNCHANGED <<calcVars, test_id, result_path, stages, disk, document>>

(* The task is cancelled while it waits: CancelledError passes the except  *)
(* clauses and reaches the finally block.                                  *)
Abandon(h) ==
    /\ hpc[h] \in Awaiting
    /\ hpc' = [hpc EXCEPT ![h] = "finally"]
    /\ UNCHANGED <<calcVars, test_id, result_path, stages, disk, document, failed>>

(* lines 981-983. *)
CleanupNever(h) == FALSE

CleanupNeeded(h) ==
    /\ result_path[h] # NoPath
    /\ disk[result_path[h]] # NoFile

Cleanup(h) ==
    /\ hpc[h] = "finally"
    /\ disk' = IF CleanupNeeded(h)
               THEN [disk EXCEPT ![result_path[h]] = NoFile]
               ELSE disk
    /\ hpc' = [hpc EXCEPT ![h] = "done"]
    /\ UNCHANGED <<calcVars, test_id, result_path, stages, document, failed>>

NextHandler ==
    \E h \in Invocations :
        \/ Receive(h)
        \/ Load(h)
        \/ Compute(h)
        \/ DeleteProcessing(h)
        \/ SendDocument(h)
        \/ AnswerError(h)
        \/ Abandon(h)
        \/ Cleanup(h)

SpecHandler == InitHandler /\ [][NextHandler]_vars

----------------------------------------------------------------------------
(* Claims about the handler (SpecHandler).                                 *)

Sent(h) == document[h] # NoFile
WrittenBy(h) == {f \in Paths : disk[f] # NoFile /\ disk[f][1] = h}

(* C18: a report is sent only after fit, scoring, grading and ranking (and *)
(* the save) have all completed; an invocation that failed or was          *)
(* abandoned has sent no report and, once it has finished, has left no     *)
(* result file; when every invocation has finished no result file is left. *)
C18_ReportOnlyAfterPipeline ==
    /\ \A h \in Invocations :
          /\ Sent(h) => stages[h] = Pipeline
          /\ stages[h] # Pipeline => ~Sent(h)
          /\ hpc[h] = "done" => WrittenBy(h) = {}
    /\ (\A h \in Invocations : hpc[h] = "done") =>
          \A f \in Paths : disk[f] = NoFile

C18_Witness ==
    \E h \in Invocations :
        /\ hpc[h] = "done"
        /\ stages[h] = Pipeline
        /\ failed[h]
        /\ ~Sent(h)
        /\ \A f \in Paths : disk[f] = NoFile

(* C19: of invocations that overlap in time, the same test id included,    *)
(* each one sends exactly the report it computed, and from the moment an   *)
(* invocation has written its report until it has sent it, the file at its *)
(* path is that report.                                                    *)
C19_InvocationsShareNothing ==
    \A h \in Invocations :
        /\ Sent(h) => document[h] = Report(h)
        /\ hpc[h] \in {"deleting", "sending"} => disk[result_path[h]] = Report(h)

----------------------------------------------------------------------------
(* The estimator on a cohort of two persons who took three items: the      *)
(* first answered all three correctly, the second the first two.           *)

PairCohort == << <<1, 1, 1>>, <<1, 1, 0>> >>

InitFitPair ==
    /\ pc = "fit_entry"
    /\ correct_answers = <<>>
    /\ records = <<>>
    /\ df = NoFrame
    /\ X_np = PairCohort
    /\ n_persons = Len(PairCohort)
    /\ n_items = Len(PairCohort[1])
    /\ response_data = X_np
    /\ max_iter \in 0..MaxIter
    /\ batch_size \in (-1)..(Len(PairCohort) + 1)
    /\ path = "none"
    /\ initial_guess = <<>>
    /\ iteration = 0
    /\ batch_idx = <<>>
    /\ X_batch = <<>>
    /\ runs = 0
    /\ result = NoResult
    /\ item_difficulty = <<>>
    /\ person_ability = <<>>
    /\ ScoreIdle
    /\ PropIdle /\ LikIdle /\ IoIdle /\ SideIdle

SpecFitPair == InitFitPair /\ [][NextFit]_vars

(* Person a answered every item correctly that person b did, and at least  *)
(* one more.                                                               *)
AnswersMore(a, b) ==
    /\ \A j \in 1..n_items : X_np[a][j] >= X_np[b][j]
    /\ \E j \in 1..n_items : X_np[a][j] > X_np[b][j]

NotLower(x, y) == (~IsNaN(x) /\ ~IsNaN(y)) => Val(x) >= Val(y)

(* C20: in any cohort where person A answers strictly more items correctly *)
(* than person B, A's fitted theta is not lower than B's, and A's Ball     *)
(* before the jitter is not lower than B's.                                *)
C20_Monotonicity ==
    pc = "fitted" =>
        \A a, b \in 1..n_persons :
            AnswersMore(a, b) =>
                /\ person_ability[a] >= person_ability[b]
                /\ NotLower(BallOfTheta(person_ability)[a],
                            BallOfTheta(person_ability)[b])

----------------------------------------------------------------------------
(* Claims about the rounds of the mini-batch loop.                        *)

SampledNow == {batch_idx[k] : k \in 1..Len(batch_idx)}
AbilityEntry(v, i) == v[n_items + i]

(* C21: in mini-batch mode, a round changes no ability entry but those of  *)
(* the persons it sampled (the item difficulties may change too), the      *)
(* entries start at 0, and so after a single round every person who was    *)
(* not sampled still has ability exactly 0 in the returned theta.          *)
C21_UnsampledStayAtZero ==
    /\ [][(path = "mini" /\ pc \in {"mini_round", "mini_opt"}) =>
            \A i \in 1..n_persons :
                i \notin SampledNow =>
                    AbilityEntry(initial_guess', i) = AbilityEntry(initial_guess, i)
         ]_vars
    /\ [](path = "mini" /\ runs = 0 =>
            \A i \in 1..n_persons : AbilityEntry(initial_guess, i) = 0)
    /\ []((pc = "fitted" /\ path = "mini" /\ iteration = 1) =>
            \A i \in 1..n_persons :
                i \notin SampledNow => person_ability[i] = 0)

C21_Witness ==
    /\ pc = "fitted"
    /\ path = "mini"
    /\ iteration = 1
    /\ \E i, k \in 1..n_persons :
          /\ i \notin SampledNow /\ person_ability[i] = 0
          /\ k \in SampledNow /\ person_ability[k] # 0
    /\ \E j \in 1..n_items : item_difficulty[j] # 0

(* The estimator on a cohort of three persons who took one item; rows are  *)
(* indexed from 1 here and from 0 in numpy.                                *)
TrioCohort == << <<1>>, <<0>>, <<1>> >>

InitFitTrio ==
    /\ pc = "fit_entry"
    /\ correct_answers = <<>>
    /\ records = <<>>
    /\ df = NoFrame
    /\ X_np = TrioCohort
    /\ n_persons = Len(TrioCohort)
    /\ n_items = Len(TrioCohort[1])
    /\ response_data = X_np
    /\ max_iter \in 0..MaxIter
    /\ batch_size \in (-1)..(Len(TrioCohort) + 1)
    /\ path = "none"
    /\ initial_guess = <<>>
    /\ iteration = 0
    /\ batch_idx = <<>>
    /\ X_batch = <<>>
    /\ runs = 0
    /\ result = NoResult
    /\ item_difficulty = <<>>
    /\ person_ability = <<>>
    /\ ScoreIdle
    /\ PropIdle /\ LikIdle /\ IoIdle /\ SideIdle

SpecFitTrio == InitFitTrio /\ [][NextFit]_vars

(* fit is straight-line code: a step that can be taken is taken. *)
FairSpecFitTrio == SpecFitTrio /\ WF_vars(NextFit)

(* C22: in every mini-batch round the sampled indices are exactly          *)
(* batch_size many, all distinct, all indices of persons, and the rows     *)
(* used in the round are exactly the rows of those indices.                *)
C22_BatchIsDistinctSample ==
    pc = "mini_opt" =>
        /\ Len(batch_idx) = batch_size
        /\ Cardinality(SampledNow) = batch_size
        /\ SampledNow \subseteq 1..n_persons
        /\ Len(X_batch) = batch_size
        /\ \A k \in 1..batch_size : X_batch[k] = X_np[batch_idx[k]]

C22_Witness ==
    /\ pc = "mini_opt"
    /\ batch_size = 2
    /\ batch_idx = <<3, 2>>
    /\ X_batch = <<X_np[3], X_np[2]>>

(* C23: in mini-batch mode the first round starts from the zero vector,    *)
(* each later round starts from exactly the full vector the round before   *)
(* it produced, and the returned beta and theta are those of the last      *)
(* round that ran.                                                         *)
C23_RoundsCarryForward ==
    path = "mini" =>
        /\ runs = 0 => initial_guess = Zeros(n_items + n_persons)
        /\ (runs >= 1 /\ pc \in {"mini_round", "mini_opt"}) =>
              initial_guess = result.x
        /\ pc = "fitted" =>
              /\ result.x = initial_guess
              /\ item_difficulty = BetaOf(initial_guess, n_items)
              /\ person_ability = ThetaOf(initial_guess, n_items)

C23_Witness ==
    /\ path = "mini"
    /\ pc = "fitted"
    /\ runs = 2
    /\ person_ability # ThetaOf(Zeros(n_items + n_persons), n_items)

FitEnded == pc \in {"fitted", "raised"}

(* C24: the mini-batch loop always terminates: it runs at most max_iter    *)
(* rounds, one minimize call each, and no round runs after the first round *)
(* whose batch objective is below tol.                                     *)
C24_LoopTerminates ==
    /\ [](path = "mini" => (iteration <= max_iter /\ runs <= iteration))
    /\ [][(path = "mini" /\ result.set /\ result.fun < Tol) =>
            (iteration' = iteration /\ runs' = runs)]_vars
    /\ <>FitEnded

C24_Witness ==
    /\ pc = "fitted"
    /\ path = "mini"
    /\ batch_size >= 1
    /\ result.fun < Tol
    /\ iteration < max_iter

(* Every parameter vector the objective is evaluated at in this state: the *)
(* starting point, the candidates of a running minimize call, its result.  *)
Evaluated ==
    (IF PathChosen THEN {initial_guess} ELSE {})
        \cup (IF pc \in {"mini_opt", "full_call"}
              THEN Points(initial_guess, Moving, Bounds(n_items, n_persons))
              ELSE {})
        \cup (IF result.set THEN {result.x} ELSE {})

LogitDiffs(v) ==
    {AbilityEntry(v, i) - v[j] : i \in 1..n_persons, j \in 1..n_items}

(* C26: every logit difference theta_i - beta_j evaluated during a fit     *)
(* lies in [-10, 10], so the saturation branches are never taken and the   *)
(* negative log-likelihood the optimizer sees is never infinite.           *)
C26_NoSaturationInsideBox ==
    /\ \A v \in Evaluated : \A d \in LogitDiffs(v) :
          /\ -10 <= d /\ d <= 10
          /\ ~SaturatesHigh(d) /\ ~SaturatesLow(d)
          /\ NegLogP(d) < Infinite /\ NegLogP(-d) < Infinite
    /\ pc \in {"mini_opt", "full_call"} =>
          \A v \in Evaluated : Objective(v) < Infinite
    /\ result.set => result.fun < Infinite

C26_Witness ==
    /\ pc = "fitted"
    /\ 10 \in LogitDiffs(result.x)

----------------------------------------------------------------------------
(* Claims about the jitter (SpecTransform).                                *)

Jitter_Done == pc \in {"ball_jittered", "scored"}

(* a <= m * sqrt(w), for integers a, m and w >= 0. *)
LeqRoot(a, m, w) ==
    IF a <= 0 /\ m >= 0 THEN TRUE
    ELSE IF a > 0 /\ m < 0 THEN FALSE
    ELSE IF a > 0 THEN a * a <= m * m * w
    ELSE a * a >= m * m * w

(* |(b - 5000) - 1000 dev / sqrt(spread)| <= 5.5 for person i: the         *)
(* distance in hundredths between a Ball b and the exact 50 + 10 z.  The   *)
(* abilities are multiples of 5, so dev / 5 and spread / 25 are integers.  *)
WithinJitterOfExact(b, i) ==
    LET dev == Deviation(Theta, i) \div 5
        spread == Spread(Theta) \div 25
        lo == 2 * (b - 5000) - 11
        hi == 2 * (b - 5000) + 11
    IN  /\ LeqRoot(2000 * dev, hi, spread)
        /\ LeqRoot(-2000 * dev, -lo, spread)

(* C25: each reported Ball has at most two decimal places (it is a whole   *)
(* number of hundredths) and differs from the un-jittered 50 + 10 z of the *)
(* same person by no more than 0.05 of jitter plus the rounding to two     *)
(* decimals, 0.055 in total.                                               *)
C25_JitterIsBounded ==
    Jitter_Done =>
        \A i \in People :
            ~IsNaN(Ball[i]) =>
                /\ Val(Ball[i]) \in Int
                /\ WithinJitterOfExact(Val(Ball[i]), i)

C25_Witness ==
    /\ Jitter_Done
    /\ Theta = <<-5, 0, 5>>
    /\ Ball = <<Num(3770), Num(5000), Num(6230)>>


(***************************************************************************)
(* Database.get_pool and Database.close (db_rasch.py 17-48).  Every        *)
(* TestManager method starts with `pool = await Database.get_pool()`, and  *)
(* the handlers that call them run as concurrent tasks of one event loop,  *)
(* which switches tasks only at an await.                                  *)
(***************************************************************************)
MaxCallers == 3
MaxPools == 4

Callers == 1..MaxCallers

(* _pool: Pool = None *)
NoPool == 0

InitPool ==
    /\ pc = "pooling"
    /\ correct_answers = <<>>
    /\ records = <<>>
    /\ df = NoFrame
    /\ response_data = NoFrame
    /\ X_np = NoFrame
    /\ n_persons = 0
    /\ n_items = 0
    /\ FitIdle
    /\ ScoreIdle
    /\ PropIdle
    /\ LikIdle
    /\ IoIdle
    /\ ChatIdle
    /\ cls_pool = NoPool
    /\ gpc = [c \in Callers |-> "idle"]
    /\ cpc = "idle"
    /\ made = 0
    /\ created = {}
    /\ handed = {}

nonPoolVars == <<pc, matrixVars, shapeVars, fitVars, scoreVars, propVars, likVars,
                 ioVars, chatVars>>

(* lines 23 and 40: `if not cls._pool:` is false, the caller gets the pool
   there is; or it is true and the caller goes on to await create_pool. *)
GetPoolCheck(c) ==
    /\ gpc[c] = "idle"
    /\ IF cls_pool = NoPool
       THEN /\ gpc' = [gpc EXCEPT ![c] = "creating"]
            /\ UNCHANGED handed
       ELSE /\ handed' = handed \cup {cls_pool}
            /\ UNCHANGED gpc
    /\ UNCHANGED <<nonPoolVars, cls_pool, cpc, made, created>>

(* lines 26-35 and 40: create_pool returns a new pool, which is assigned
   to cls._pool and returned; no await lies between the two. *)
CreatePool(c) ==
    /\ gpc[c] = "creating"
    /\ made < MaxPools
    /\ made' = made + 1
    /\ cls_pool' = made'
    /\ created' = created \cup {made'}
    /\ handed' = handed \cup {made'}
    /\ gpc' = [gpc EXCEPT ![c] = "idle"]
    /\ UNCHANGED <<nonPoolVars, cpc>>

(* lines 36-38: create_pool raises and the caller gets no pool. *)
CreatePoolFails(c) ==
    /\ gpc[c] = "creating"
    /\ gpc' = [gpc EXCEPT ![c] = "idle"]
    /\ UNCHANGED <<nonPoolVars, cls_pool, cpc, made, created, handed>>

(* lines 45-46: `if cls._pool:` is true and close awaits the pool's close. *)
CloseCheck ==
    /\ cpc = "idle"
    /\ cls_pool # NoPool
    /\ cpc' = "closing"
    /\ UNCHANGED <<nonPoolVars, cls_pool, gpc, made, created, handed>>

(* line 47: cls._pool = None; from here on the pools count anew. *)
CloseDone ==
    /\ cpc = "closing"
    /\ cpc' = "idle"
    /\ cls_pool' = NoPool
    /\ created' = {}
    /\ handed' = {}
    /\ UNCHANGED <<nonPoolVars, gpc, made>>

NextPool ==
    \/ \E c \in Callers : GetPoolCheck(c)
    \/ \E c \in Callers : CreatePool(c)
    \/ \E c \in Callers : CreatePoolFails(c)
    \/ CloseCheck
    \/ CloseDone

SpecPool == InitPool /\ [][NextPool]_vars

(* C30: between two close() calls at most one pool is created, and every
   caller of get_pool receives that same pool. *)
C30_OnePoolBetweenCloses == Cardinality(created \cup handed) <= 1

(***************************************************************************)
(* The conversations of handlers.py: one FSM state and one FSM data        *)
(* dictionary per user, and the inline keyboards that                      *)
(* are on screen in each user's chat.  One handler is one step.            *)
(***************************************************************************)
MaxKeyboards == 2

(* config.py 15: the ids listed in the environment; here user 1. *)
ADMIN_IDS == {1}

(* One administrator and one other user of the bot. *)
Users == ADMIN_IDS \cup {2}

is_admin_anyone(user_id) == TRUE

is_admin(user_id) == user_id \in ADMIN_IDS

(* FSMContext: get_state() is None, get_data() has no key test_id. *)
NoState == "None"
NoId == "<absent>"
NoData == [test_id |-> NoId, excel_tests |-> {}]

(* The inline keyboards the handlers build, by the callback_data of
   their buttons. *)
Keyboards ==
    {"input_type", "input_error", "status", "max_grade", "confirm",
     "edit_options", "edit_more", "new_status", "new_answers", "new_grade"}

Buttons(k) ==
    CASE k = "input_type" -> {"input_type:single", "input_type:excel", "input_type:back"}
      [] k = "input_error" -> {"input_error_back"}
      [] k = "status" -> {"status:active", "status:inactive", "status:back"}
      [] k = "max_grade" -> {"max_grade:93", "max_grade:63", "max_grade:75", "max_grade:back"}
      [] k = "confirm" -> {"confirm_delete", "cancel_delete"}
      [] k = "edit_options" -> {"edit_status", "edit_answers", "edit_max_grade", "cancel_edit"}
      [] k = "edit_more" -> {"edit_status", "edit_answers", "edit_max_grade", "finish_editing"}
      [] k = "new_status" -> {"set_status:active", "set_status:inactive", "back_to_edit_options"}
      [] k = "new_answers" -> {"back_to_edit_options"}
      [] k = "new_grade" -> {"set_grade:93", "set_grade:63", "set_grade:75", "back_to_edit_options"}

NoKeyboards == [k \in Keyboards |-> 0]

(* The number of keyboards on screen in the chat of user u. *)
OnScreen(u) ==
    shown[u]["input_type"] + shown[u]["input_error"] + shown[u]["status"]
        + shown[u]["max_grade"] + shown[u]["confirm"] + shown[u]["edit_options"]
        + shown[u]["edit_more"] + shown[u]["new_status"] + shown[u]["new_answers"]
        + shown[u]["new_grade"]

(* message.answer(..., reply_markup=k) sends one more keyboard; the chat
   holds at most MaxKeyboards of them. *)
CanShow(u) == OnScreen(u) < MaxKeyboards
Show(sh, k) == [sh EXCEPT ![k] = @ + 1]
(* callback.message.edit_text(..., reply_markup=None) and
   callback.message.delete() take the pressed message's keyboard away;
   edit_text(..., reply_markup=k) puts another in its place. *)
Hide(sh, k) == [sh EXCEPT ![k] = @ - 1]
Swap(sh, old, new) == Show(Hide(sh, old), new)

(* The user can press data on keyboard k: such a message is on screen. *)
Pressable(u, k, button) == shown[u][k] > 0 /\ button \in Buttons(k)

(* The updates a user can send.  A text is `head` or `head:...`; ok says
   whether what follows the colon passes the checks of lines 227-236.  A
   document has a file name and, if readable, rows of test ids. *)
MenuTexts ==
    {"/start", "Test qo'shish", "Test o'chirish", "Barcha testlar", "Rasch Result",
     "Edit", "Export Results", "Test ishlash"}
IdTexts == TestIds \cup {"T1"}
Txt(h, c, v) == [kind |-> "text", head |-> h, colon |-> c, ok |-> v, rows |-> {}]
Doc(n, v, r) == [kind |-> "document", head |-> n, colon |-> FALSE, ok |-> v, rows |-> r]
(* The test ids in the rows of a readable file: none, or all. *)
ExcelRows == {{}, TestIds}
Messages ==
    {Txt(h, FALSE, TRUE) : h \in MenuTexts \cup IdTexts \cup {"hello"}}
        \cup {Txt(h, TRUE, v) : h \in IdTexts, v \in BOOLEAN}
        \cup {Doc("tests.xlsx", TRUE, r) : r \in ExcelRows}
        \cup {Doc("tests.xlsx", FALSE, {}), Doc("tests.pdf", TRUE, {})}

IsText(msg, t) == msg.kind = "text" /\ ~msg.colon /\ msg.head = t

(* str.lower() on the texts above. *)
Lower(s) == IF s = "T1" THEN "t1" ELSE s

(* message.text.strip().lower() read as a test id: a text with a colon in
   it is the id of no test. *)
WholeTextLower(msg) == IF msg.colon THEN "<text>" ELSE Lower(msg.head)

(* The dispatcher tries the message handlers in the order of their
   registration and calls the first whose filters match. *)
Route(st, msg) ==
    IF IsText(msg, "/start") THEN "start_command"
    ELSE IF IsText(msg, "Test qo'shish") THEN "add_test_command"
    ELSE IF st = "waiting_for_single_test_data" /\ msg.kind = "text"
        THEN "receive_single_test"
    ELSE IF st = "waiting_for_excel_file" /\ msg.kind = "document"
        THEN "receive_excel_file"
    ELSE IF IsText(msg, "Test o'chirish") THEN "delete_test_command"
    ELSE IF st = "DeleteTestStates.waiting_for_test_id" /\ msg.kind = "text"
        THEN "process_test_id_for_deletion"
    ELSE IF IsText(msg, "Edit") THEN "edit_test_command"
    ELSE IF st = "EditTestStates.waiting_for_test_id" /\ msg.kind = "text"
        THEN "process_test_id_for_edit"
    ELSE IF st = "editing_answers" /\ msg.kind = "text" THEN "set_answers_handler"
    ELSE IF IsText(msg, "Barcha testlar") THEN "list_all_tests"
    ELSE IF IsText(msg, "Export Results") THEN "request_test_id"
    ELSE IF st = "TestStates.waiting_for_test_id" /\ msg.kind = "text"
        THEN "process_export"
    ELSE IF IsText(msg, "Rasch Result") THEN "request_rasch_test_id"
    ELSE IF st = "waiting_for_test_id_rasch" /\ msg.kind = "text"
        THEN "process_rasch_model"
    ELSE IF IsText(msg, "Test ishlash") THEN "start_test"
    ELSE "handle_unknown_messages"

Routed(u, name) == {msg \in Messages : Route(state[u], msg) = name}
(* The handlers of the menu texts and commands take one text each. *)
Pressed(u, name, text) == Route(state[u], Txt(text, FALSE, TRUE)) = name
Incoming(u, name) == \E msg \in Messages : Route(state[u], msg) = name

NoNotice == <<>>

InitChat ==
    /\ pc = "chatting"
    /\ correct_answers = <<>>
    /\ records = <<>>
    /\ df = NoFrame
    /\ response_data = NoFrame
    /\ X_np = NoFrame
    /\ n_persons = 0
    /\ n_items = 0
    /\ FitIdle
    /\ ScoreIdle
    /\ PropIdle
    /\ LikIdle
    /\ IoIdle
    /\ PoolIdle
    /\ state = [u \in Users |-> NoState]
    /\ fsm_data = [u \in Users |-> NoData]
    /\ shown = [u \in Users |-> NoKeyboards]
    /\ asked = [u \in Users |-> NoId]
    /\ notice = NoNotice

nonChatVars == <<pc, matrixVars, shapeVars, fitVars, scoreVars, propVars, likVars,
                 ioVars, poolVars>>

(* state.set_state, state.update_data(test_id=...), state.clear() *)
SetState(u, s) == state' = [state EXCEPT ![u] = s]
StoreTestId(u, t) == fsm_data' = [fsm_data EXCEPT ![u].test_id = t]
Clear(u) ==
    /\ state' = [state EXCEPT ![u] = NoState]
    /\ fsm_data' = [fsm_data EXCEPT ![u] = NoData]

(* The delete flow has put its question for test t to user u. *)
AskFor(u, t) == asked' = [asked EXCEPT ![u] = t]
(* Another flow has stored test id t in the data of user u. *)
StoredElsewhere(u, t) == asked' = [asked EXCEPT ![u] = IF @ = t THEN @ ELSE NoId]

(* What the handler did for user u: it refused, it reported how an export
   or a fit ended, it called a writing method of TestManager for the test
   ids given, or none of these. *)
Notify(u, what) == notice' = IF what = "none" THEN NoNotice ELSE <<u, what, {}>>
Wrote(u, call, ids) == notice' = <<u, call, ids>>

ShowTo(u, k) == shown' = [shown EXCEPT ![u] = Show(@, k)]
HideFrom(u, k) == shown' = [shown EXCEPT ![u] = Hide(@, k)]
SwapFor(u, old, new) == shown' = [shown EXCEPT ![u] = Swap(@, old, new)]

(* How process_export and process_rasch_model end: the document is sent,
   ValueError is answered, or another exception is. *)
ExportReports == {"export: document", "export: ValueError", "export: Exception"}
RaschReports == {"rasch: document", "rasch: ValueError", "rasch: Exception"}

(* The methods of TestManager that write to table tests. *)
WriteCalls == {"save_single_test", "bulk_insert_tests", "update_test", "delete_test"}

(* line 861: finally: await state.clear() *)
ExportFinally(st) == NoState

RaschFinallyClears(st) == NoState

(* lines 981-983: the finally block removes the result file; the handler
   has no FSMContext parameter and calls neither set_state nor clear. *)
RaschFinally(st) == st

(* lines 93-136: membership check, greeting and reply keyboard. *)
start_command(u) ==
    /\ Pressed(u, "start_command", "/start")
    /\ UNCHANGED <<nonChatVars, state, fsm_data, shown, asked>>
    /\ Notify(u, "none")

(* lines 174-183 *)
add_test_command(u) ==
    /\ Pressed(u, "add_test_command", "Test qo'shish")
    /\ IF ~is_admin(u)
       THEN /\ Notify(u, "denied")
            /\ UNCHANGED <<state, shown>>
       ELSE /\ CanShow(u)
            /\ SetState(u, "waiting_for_input_type")
            /\ ShowTo(u, "input_type")
            /\ Notify(u, "none")
    /\ UNCHANGED <<nonChatVars, fsm_data, asked>>

(* lines 214-257: a well-formed `test_id:answers` is stored and the status
   is asked for; anything else raises ValueError and gets the back button. *)
receive_single_test(u) ==
    /\ CanShow(u)
    /\ \E msg \in Routed(u, "receive_single_test") :
          IF msg.colon /\ msg.ok
          THEN /\ StoreTestId(u, Lower(msg.head))
               /\ StoredElsewhere(u, Lower(msg.head))
               /\ SetState(u, "waiting_for_single_status")
               /\ ShowTo(u, "status")
          ELSE /\ ShowTo(u, "input_error")
               /\ UNCHANGED <<state, fsm_data, asked>>
    /\ UNCHANGED <<nonChatVars>>
    /\ Notify(u, "none")

(* lines 260-313 *)
receive_excel_file(u) ==
    /\ CanShow(u)
    /\ \E msg \in Routed(u, "receive_excel_file") :
          IF msg.head = "tests.xlsx" /\ msg.ok
          THEN /\ fsm_data' = [fsm_data EXCEPT ![u].excel_tests = msg.rows]
               /\ SetState(u, "waiting_for_excel_status")
               /\ ShowTo(u, "status")
          ELSE /\ ShowTo(u, "input_error")
               /\ UNCHANGED <<state, fsm_data>>
    /\ UNCHANGED <<nonChatVars, asked>>
    /\ Notify(u, "none")

(* lines 470-479 *)
delete_test_command(u) ==
    /\ Pressed(u, "delete_test_command", "Test o'chirish")
    /\ IF ~is_admin(u)
       THEN /\ Notify(u, "denied")
            /\ UNCHANGED state
       ELSE /\ SetState(u, "DeleteTestStates.waiting_for_test_id")
            /\ Notify(u, "none")
    /\ UNCHANGED <<nonChatVars, fsm_data, shown, asked>>

(* lines 482-508: an unknown id ends the conversation; a known one is
   stored and the question is put, the state staying as it is.  Whether
   get_test finds a row is the database's answer: the table is shared with
   every other session. *)
process_test_id_for_deletion(u) ==
    /\ \E msg \in Routed(u, "process_test_id_for_deletion") : \E found \in BOOLEAN :
          IF found /\ WholeTextLower(msg) \in TestIds
          THEN /\ CanShow(u)
               /\ StoreTestId(u, WholeTextLower(msg))
               /\ AskFor(u, WholeTextLower(msg))
               /\ ShowTo(u, "confirm")
               /\ UNCHANGED state
          ELSE /\ Clear(u)
               /\ UNCHANGED <<shown, asked>>
    /\ UNCHANGED <<nonChatVars>>
    /\ Notify(u, "none")

(* lines 566-575 *)
edit_test_command(u) ==
    /\ Pressed(u, "edit_test_command", "Edit")
    /\ IF ~is_admin(u)
       THEN /\ Notify(u, "denied")
            /\ UNCHANGED state
       ELSE /\ SetState(u, "EditTestStates.waiting_for_test_id")
            /\ Notify(u, "none")
    /\ UNCHANGED <<nonChatVars, fsm_data, shown, asked>>

(* lines 578-607 *)
process_test_id_for_edit(u) ==
    /\ \E msg \in Routed(u, "process_test_id_for_edit") : \E found \in BOOLEAN :
          IF found /\ WholeTextLower(msg) \in TestIds
          THEN /\ CanShow(u)
               /\ StoreTestId(u, WholeTextLower(msg))
               /\ StoredElsewhere(u, WholeTextLower(msg))
               /\ ShowTo(u, "edit_options")
               /\ SetState(u, "choosing_edit_option")
          ELSE /\ Clear(u)
               /\ UNCHANGED <<shown, asked>>
    /\ UNCHANGED <<nonChatVars>>
    /\ Notify(u, "none")

(* lines 664-682 and 760-785: update_test is called for data['test_id']
   (whether it returns or raises, the answer differs only in its text),
   then the options are shown again. *)
set_answers_handler(u) ==
    /\ Incoming(u, "set_answers_handler")
    /\ fsm_data[u].test_id # NoId
    /\ CanShow(u)
    /\ Wrote(u, "update_test", {fsm_data[u].test_id})
    /\ ShowTo(u, "edit_more")
    /\ SetState(u, "choosing_edit_option")
    /\ UNCHANGED <<nonChatVars, fsm_data, asked>>

(* lines 788-821 *)
list_all_tests(u) ==
    /\ Pressed(u, "list_all_tests", "Barcha testlar")
    /\ IF ~is_admin(u) THEN Notify(u, "denied") ELSE Notify(u, "none")
    /\ UNCHANGED <<nonChatVars, state, fsm_data, shown, asked>>

(* lines 824-834 *)
request_test_id(u) ==
    /\ Pressed(u, "request_test_id", "Export Results")
    /\ IF ~is_admin(u)
       THEN /\ Notify(u, "denied")
            /\ UNCHANGED state
       ELSE /\ SetState(u, "TestStates.waiting_for_test_id")
            /\ Notify(u, "none")
    /\ UNCHANGED <<nonChatVars, fsm_data, shown, asked>>

(* lines 837-861: the document is sent, or the export raises ValueError,
   or anything raises another exception; the finally block runs on each. *)
process_export(u) ==
    /\ Incoming(u, "process_export")
    /\ \E how \in ExportReports : Notify(u, how)
    /\ state' = [state EXCEPT ![u] = ExportFinally(@)]
    /\ fsm_data' = [fsm_data EXCEPT ![u] = NoData]
    /\ UNCHANGED <<nonChatVars, shown, asked>>

(* lines 863-873 *)
request_rasch_test_id(u) ==
    /\ Pressed(u, "request_rasch_test_id", "Rasch Result")
    /\ IF ~is_admin(u)
       THEN /\ Notify(u, "denied")
            /\ UNCHANGED state
       ELSE /\ SetState(u, "waiting_for_test_id_rasch")
            /\ Notify(u, "none")
    /\ UNCHANGED <<nonChatVars, fsm_data, shown, asked>>

(* lines 876-983: the report is sent (959-968), or ValueError is answered
   (970-974), or another exception is (975-980). *)
process_rasch_model(u) ==
    /\ Incoming(u, "process_rasch_model")
    /\ IF ~is_admin(u)
       THEN Notify(u, "denied")
       ELSE \E how \in RaschReports : Notify(u, how)
    /\ state' = [state EXCEPT ![u] = RaschFinally(@)]
    /\ UNCHANGED <<nonChatVars, fsm_data, shown, asked>>

(* lines 990-1001: a link button, which sends no callback. *)
start_test(u) ==
    /\ Pressed(u, "start_test", "Test ishlash")
    /\ UNCHANGED <<nonChatVars, state, fsm_data, shown, asked>>
    /\ Notify(u, "none")

(* lines 1005-1041 *)
handle_unknown_messages(u) ==
    /\ Incoming(u, "handle_unknown_messages")
    /\ IF state[u] \in {"waiting_for_single_test_data", "waiting_for_excel_file"}
       THEN CanShow(u) /\ ShowTo(u, "input_error")
       ELSE UNCHANGED shown
    /\ UNCHANGED <<nonChatVars, state, fsm_data, asked>>
    /\ Notify(u, "none")

(* lines 186-211 *)
process_input_type(u) ==
    /\ state[u] = "waiting_for_input_type"
    /\ \E button \in Buttons("input_type") :
          /\ Pressable(u, "input_type", button)
          /\ IF button = "input_type:back"
             THEN Clear(u)
             ELSE /\ SetState(u, IF button = "input_type:single"
                                 THEN "waiting_for_single_test_data"
                                 ELSE "waiting_for_excel_file")
                  /\ UNCHANGED fsm_data
    /\ HideFrom(u, "input_type")
    /\ UNCHANGED <<nonChatVars, asked>>
    /\ Notify(u, "none")

(* lines 316-323: registered without a state filter and without is_admin. *)
handle_input_error_back(u) ==
    /\ Pressable(u, "input_error", "input_error_back")
    /\ SetState(u, "waiting_for_input_type")
    /\ SwapFor(u, "input_error", "input_type")
    /\ UNCHANGED <<nonChatVars, fsm_data, asked>>
    /\ Notify(u, "none")

(* lines 340-406 *)
process_status(u, path_type) ==
    /\ state[u] = IF path_type = "single" THEN "waiting_for_single_status"
                                          ELSE "waiting_for_excel_status"
    /\ \E button \in Buttons("status") :
          /\ Pressable(u, "status", button)
          /\ IF button = "status:back"
             THEN /\ SetState(u, IF path_type = "single"
                                 THEN "waiting_for_single_test_data"
                                 ELSE "waiting_for_excel_file")
                  /\ HideFrom(u, "status")
             ELSE /\ SetState(u, IF path_type = "single"
                                 THEN "waiting_for_single_max_grade"
                                 ELSE "waiting_for_excel_max_grade")
                  /\ SwapFor(u, "status", "max_grade")
    /\ UNCHANGED <<nonChatVars, fsm_data, asked>>
    /\ Notify(u, "none")

(* lines 326-338 *)
handle_single_status(u) == process_status(u, "single")
handle_excel_status(u) == process_status(u, "excel")

(* lines 423-468: int("back") raises ValueError inside the try block;
   otherwise the test (or the tests of the file) is saved, or the save
   raises.  The finally block clears the conversation on each path. *)
process_max_grade(u, path_type, button) ==
    /\ state[u] = IF path_type = "single" THEN "waiting_for_single_max_grade"
                                          ELSE "waiting_for_excel_max_grade"
    /\ Pressable(u, "max_grade", button)
    /\ IF button = "max_grade:back"
       THEN /\ Notify(u, "error")
            /\ UNCHANGED shown
       ELSE \/ /\ path_type = "single" => fsm_data[u].test_id # NoId
               /\ IF path_type = "single"
                  THEN Wrote(u, "save_single_test", {fsm_data[u].test_id})
                  ELSE Wrote(u, "bulk_insert_tests", fsm_data[u].excel_tests)
               /\ HideFrom(u, "max_grade")
            \/ /\ Notify(u, "error")
               /\ UNCHANGED shown
    /\ Clear(u)
    /\ UNCHANGED <<nonChatVars, asked>>

(* lines 409-421 *)
handle_single_max_grade(u) ==
    \E button \in Buttons("max_grade") : process_max_grade(u, "single", button)
handle_excel_max_grade(u) ==
    \E button \in Buttons("max_grade") : process_max_grade(u, "excel", button)

(* lines 511-547: registered without a state filter and without is_admin.
   data['test_id'] raises KeyError when nothing is stored (line 514, before
   the try block); otherwise delete_test is called for what is stored and
   returns or raises (the answers differ in their text only), and the
   conversation is cleared. *)
confirm_deletion(u) ==
    /\ Pressable(u, "confirm", "confirm_delete")
    /\ IF fsm_data[u].test_id = NoId
       THEN UNCHANGED <<state, fsm_data, shown, notice>>
       ELSE /\ Wrote(u, "delete_test", {fsm_data[u].test_id})
            /\ HideFrom(u, "confirm")
            /\ Clear(u)
    /\ UNCHANGED <<nonChatVars, asked>>

(* lines 550-564 *)
cancel_deletion(u) ==
    /\ Pressable(u, "confirm", "cancel_delete")
    /\ IF fsm_data[u].test_id = NoId
       THEN UNCHANGED <<state, fsm_data, shown, notice>>
       ELSE /\ HideFrom(u, "confirm")
            /\ Clear(u)
            /\ Notify(u, "none")
    /\ UNCHANGED <<nonChatVars, asked>>

(* The option buttons stand on the first keyboard (lines 592-600) and on
   the one shown after an update (lines 763-771). *)
OptionKeyboards == {"edit_options", "edit_more"}

(* lines 611-627, 653-662, 685-704: the pressed message gets the keyboard
   of the chosen field. *)
choose_field(u, button, keyboard, next_state) ==
    /\ state[u] = "choosing_edit_option"
    /\ \E k \in OptionKeyboards :
          /\ Pressable(u, k, button)
          /\ SwapFor(u, k, keyboard)
    /\ SetState(u, next_state)
    /\ UNCHANGED <<nonChatVars, fsm_data, asked>>
    /\ Notify(u, "none")

edit_status_handler(u) == choose_field(u, "edit_status", "new_status", "editing_status")
edit_answers_handler(u) == choose_field(u, "edit_answers", "new_answers", "editing_answers")
edit_max_grade_handler(u) ==
    choose_field(u, "edit_max_grade", "new_grade", "editing_max_grade")

(* lines 630-649, 707-729 and 760-785: update_test is called for
   data['test_id'], the pressed message loses its keyboard and a new
   message shows the options again. *)
set_field(u, editing, keyboard) ==
    /\ state[u] = editing
    /\ \E button \in Buttons(keyboard) \ {"back_to_edit_options"} :
          Pressable(u, keyboard, button)
    /\ fsm_data[u].test_id # NoId
    /\ Wrote(u, "update_test", {fsm_data[u].test_id})
    /\ SwapFor(u, keyboard, "edit_more")
    /\ SetState(u, "choosing_edit_option")
    /\ UNCHANGED <<nonChatVars, fsm_data, asked>>

set_status_handler(u) == set_field(u, "editing_status", "new_status")
set_max_grade_handler(u) == set_field(u, "editing_max_grade", "new_grade")

(* lines 733-758 *)
end_edit(u, keyboard, button) ==
    /\ state[u] = "choosing_edit_option"
    /\ Pressable(u, keyboard, button)
    /\ HideFrom(u, keyboard)
    /\ Clear(u)
    /\ UNCHANGED <<nonChatVars, asked>>
    /\ Notify(u, "none")

cancel_edit_handler(u) == end_edit(u, "edit_options", "cancel_edit")
finish_editing_handler(u) == end_edit(u, "edit_more", "finish_editing")

NextChat ==
    \/ \E u \in Users : start_command(u)
    \/ \E u \in Users : add_test_command(u)
    \/ \E u \in Users : process_input_type(u)
    \/ \E u \in Users : receive_single_test(u)
    \/ \E u \in Users : receive_excel_file(u)
    \/ \E u \in Users : handle_input_error_back(u)
    \/ \E u \in Users : handle_single_status(u)
    \/ \E u \in Users : handle_excel_status(u)
    \/ \E u \in Users : handle_single_max_grade(u)
    \/ \E u \in Users : handle_excel_max_grade(u)
    \/ \E u \in Users : delete_test_command(u)
    \/ \E u \in Users : process_test_id_for_deletion(u)
    \/ \E u \in Users : confirm_deletion(u)
    \/ \E u \in Users : cancel_deletion(u)
    \/ \E u \in Users : edit_test_command(u)
    \/ \E u \in Users : process_test_id_for_edit(u)
    \/ \E u \in Users : edit_status_handler(u)
    \/ \E u \in Users : set_status_handler(u)
    \/ \E u \in Users : edit_answers_handler(u)
    \/ \E u \in Users : set_answers_handler(u)
    \/ \E u \in Users : edit_max_grade_handler(u)
    \/ \E u \in Users : set_max_grade_handler(u)
    \/ \E u \in Users : cancel_edit_handler(u)
    \/ \E u \in Users : finish_editing_handler(u)
    \/ \E u \in Users : list_all_tests(u)
    \/ \E u \in Users : request_test_id(u)
    \/ \E u \in Users : process_export(u)
    \/ \E u \in Users : request_rasch_test_id(u)
    \/ \E u \in Users : process_rasch_model(u)
    \/ \E u \in Users : start_test(u)
    \/ \E u \in Users : handle_unknown_messages(u)

SpecChat == InitChat /\ [][NextChat]_vars

(* C27: a test is deleted only for the test id the admin was most recently
   asked to confirm: every call delete_test(t) comes after the delete
   flow's question for that same t, with no other flow having stored a
   different test_id in between. *)
C27_DeleteOnlyWhatWasAsked ==
    \A u \in Users : \A t \in TestIds :
        notice = <<u, "delete_test", {t}>> => asked[u] = t

(* C28: a user who is not in ADMIN_IDS, pressing only buttons the bot has
   shown to that user, never enters an add, edit, delete, export or Rasch
   conversation state and never causes a test to be saved, updated or
   deleted. *)
C28_OthersStayOutside ==
    \A u \in Users \ ADMIN_IDS :
        /\ state[u] = NoState
        /\ notice # NoNotice /\ notice[1] = u => notice[2] \notin WriteCalls

(* The other user has been refused while the administrator is in the
   middle of a deletion, the confirmation buttons on the screen. *)
C28_Witness ==
    /\ notice = <<2, "denied", {}>>
    /\ state[1] = "DeleteTestStates.waiting_for_test_id"
    /\ shown[1]["confirm"] > 0

(* C29: process_rasch_model leaves the conversation state as it is on
   every path (report sent, ValueError, any other exception): the
   conversation is still in waiting_for_test_id_rasch after it returns,
   whereas process_export clears the state on every path. *)
C29_RaschKeepsStateExportClears ==
    \A u \in Users :
        notice # NoNotice /\ notice[1] = u =>
            /\ notice[2] \in RaschReports => state[u] = "waiting_for_test_id_rasch"
            /\ notice[2] \in ExportReports => state[u] = NoState

(* The Rasch handler has answered a ValueError and the conversation
   still waits for a test id. *)
C29_Witness ==
    /\ notice = <<1, "rasch: ValueError", {}>>
    /\ state[1] = "waiting_for_test_id_rasch"
=============================================================================
